---- MODULE Spec2Model ----
(***************************************************************************)
(* Runway: the DDL parser (src/src/parser/index.js) and the renderer's     *)
(* schema pipeline (Layout.jsx, SchemaContext), as state machines.         *)
(*                                                                         *)
(* SQL text is modelled as a sequence of lexemes.  A lexeme is one         *)
(* whitespace character (" " or "\n"), one punctuation character, a        *)
(* comment marker, or a maximal run of word characters (\w+).  The         *)
(* regular expressions of the parser are matched on lexemes: \s is a       *)
(* whitespace lexeme, \w+ a word lexeme, and a character class is the set  *)
(* of lexemes it admits.  Keywords are written in upper case (the /i flag  *)
(* is not modelled), and a keyword is never a proper substring of a word.  *)
(*                                                                         *)
(* A regular expression is matched step by step: the operator for one      *)
(* step receives the positions the steps before it reached and hands the   *)
(* position it reaches to the operator for the next step.                  *)
(***************************************************************************)
EXTENDS Integers, Sequences, FiniteSets, TLC

\* ------------------------------------------------------------------------
\* Lexemes
\* ------------------------------------------------------------------------
WS == {" ", "\n"}

Punct == {"(", ")", ",", ";", ".", "\"", "'", "[", "]", "--", "/*", "*/"}

\* words made of digits only (\d+), with their value under parseInt(_, 10)
NumVal == [w \in {"0", "1", "2", "5", "10", "50"} |->
             CASE w = "0" -> 0 [] w = "1" -> 1 [] w = "2" -> 2
               [] w = "5" -> 5 [] w = "10" -> 10 [] OTHER -> 50]

IsWord(l) == l \notin WS /\ l \notin Punct

IsNum(l) == l \in DOMAIN NumVal

\* [A-Za-z_] as the first character of a word
IsAlphaStart(l) == IsWord(l) /\ ~IsNum(l)

NULL == "<null>"

Min(S) == CHOOSE x \in S : \A y \in S : x <= y

Max(S) == CHOOSE x \in S : \A y \in S : y <= x

MinOr(S, dflt) == IF S = {} THEN dflt ELSE Min(S)

MaxOr(S, dflt) == IF S = {} THEN dflt ELSE Max(S)

\* the k-th smallest element of a set of numbers
Nth(S, k) == CHOOSE i \in S : Cardinality({j \in S : j < i}) = k - 1

\* first index j >= i of t among the indices J, Len(t)+1 when none
FirstIdx(t, i, J) == MinOr({j \in i..Len(t) : j \in J}, Len(t) + 1)

\* the index reached by \s* from i
skipWs(t, i) == FirstIdx(t, i, {n \in DOMAIN t : t[n] \notin WS})

\* String.prototype.trim
Trim(s) ==
  SubSeq(s, MinOr({j \in 1..Len(s) : s[j] \notin WS}, 1),
            MaxOr({j \in 1..Len(s) : s[j] \notin WS}, 0))

\* the string spelled by a sequence of lexemes
RECURSIVE Cat(_)
Cat(s) == IF s = <<>> THEN "" ELSE Head(s) \o Cat(Tail(s))

\* the elements of a sequence
Range(s) == {s[k] : k \in DOMAIN s}

\* the concatenation of a sequence of sequences
RECURSIVE Flatten(_)
Flatten(ss) == IF ss = <<>> THEN <<>> ELSE Head(ss) \o Flatten(Tail(ss))

\* the pieces of s between the indices in cuts
Pieces(s, cuts) ==
  [k \in 1..(Cardinality(cuts) + 1) |->
     SubSeq(s, IF k = 1 THEN 1 ELSE Nth(cuts, k - 1) + 1,
               IF k > Cardinality(cuts) THEN Len(s) ELSE Nth(cuts, k) - 1)]

\* String.prototype.split on a one-lexeme separator
SplitOn(s, sep) == Pieces(s, {i \in 1..Len(s) : s[i] = sep})

\* replace(/^q|q$/g, ''): a leading q and a trailing q are removed
stripEnds(s, q) ==
  SubSeq(s, IF s # <<>> /\ Head(s) = q THEN 2 ELSE 1,
            IF Len(s) >= 2 /\ s[Len(s)] = q THEN Len(s) - 1
            ELSE IF Len(s) = 1 /\ s[1] = q THEN 0
            ELSE Len(s))

\* w1\s+w2\s+...\s+wn matched at i: the index after wn, 0 when no match
RECURSIVE phraseEnd(_, _, _)
phraseEnd(t, i, ws) ==
  IF i > Len(t) \/ t[i] # Head(ws) THEN 0
  ELSE IF Len(ws) = 1 THEN i + 1
  ELSE IF skipWs(t, i + 1) = i + 1 THEN 0
  ELSE phraseEnd(t, skipWs(t, i + 1), Tail(ws))

\* (["\w.]+) matched greedily at i: the index after the run
identEnd(t, i) == FirstIdx(t, i, {n \in DOMAIN t : ~(IsWord(t[n]) \/ t[n] = "\"" \/ t[n] = ".")})

\* (["\w]+) matched greedily at i: the index after the run
nameEnd(t, i) == FirstIdx(t, i, {n \in DOMAIN t : ~(IsWord(t[n]) \/ t[n] = "\"")})

NoGroup == [ok |-> FALSE, body |-> <<>>, end |-> 0]

\* the group that opens at i and closes at j
parenGroupTo(t, i, j) ==
  IF j > Len(t) \/ j = i + 1 THEN NoGroup
  ELSE [ok |-> TRUE, body |-> SubSeq(t, i + 1, j - 1), end |-> j + 1]

\* \(([^)]+)\) matched at i: body and the index after the closing parenthesis
parenGroup(t, i) ==
  IF i > Len(t) \/ t[i] # "(" THEN NoGroup
  ELSE parenGroupTo(t, i, FirstIdx(t, i + 1, {n \in DOMAIN t : t[n] = ")"}))

NoMatch == [ok |-> FALSE]

\* the first match of ms at an index >= p, NoMatch when none: RegExp.exec
\* with lastIndex p, ms[i] being the match attempted at i
firstOkAt(ms, i) == IF i = 0 THEN NoMatch ELSE ms[i]

firstOkFrom(ms, p) == firstOkAt(ms, MinOr({i \in DOMAIN ms : i >= p /\ ms[i].ok}, 0))

\* the first of the alternatives that matched
firstOk(ms) == firstOkFrom(ms, 1)

\* ------------------------------------------------------------------------
\* cleanIdentifier, normalizeDataType
\* ------------------------------------------------------------------------
\* cleaned.includes('.') ? cleaned.split('.').pop() : cleaned
afterLastDot(s) == SubSeq(s, MaxOr({i \in 1..Len(s) : s[i] = "."}, 0) + 1, Len(s))

cleanIdentifier(identifier) == Cat(afterLastDot(stripEnds(Trim(identifier), "\"")))

\* .map(c => cleanIdentifier(c.trim()))
cleanEach(pieces) == [i \in 1..Len(pieces) |-> cleanIdentifier(Trim(pieces[i]))]

\* .split(',').map(c => cleanIdentifier(c.trim()))
identList(s) == cleanEach(SplitOn(s, ","))

\* replace(/\s+/g, ' '): every run of whitespace becomes one space
RECURSIVE collapseWs(_)
collapseWs(s) ==
  IF s = <<>> THEN <<>>
  ELSE IF Head(s) \in WS
       THEN <<" ">> \o collapseWs(SubSeq(s, skipWs(s, 1), Len(s)))
       ELSE <<Head(s)>> \o collapseWs(Tail(s))

\* the n lexemes of s from i replaced by word; s itself when i = 0
replaceAt(s, i, n, word) ==
  IF i = 0 THEN s
  ELSE SubSeq(s, 1, i - 1) \o <<word>> \o SubSeq(s, i + n, Len(s))

\* replace(pattern, word) for a pattern of lexemes: the first occurrence only
replaceFirst(s, pat, word) ==
  replaceAt(s, MinOr({i \in 1..(Len(s) - Len(pat) + 1) : SubSeq(s, i, i + Len(pat) - 1) = pat}, 0),
            Len(pat), word)

normalizeDataType(dataType) ==
  Cat(Trim(replaceFirst(replaceFirst(replaceFirst(collapseWs(dataType),
        <<"CHARACTER", " ", "VARYING">>, "VARCHAR"),
        <<"INTEGER">>, "INT"),
        <<"BOOLEAN">>, "BOOL")))

\* ------------------------------------------------------------------------
\* parseColumn
\* ------------------------------------------------------------------------
\* [\w\s()[\],] : the characters a data type may continue with
InTypeClass(l) == IsWord(l) \/ l \in WS \/ l \in {"(", ")", "[", "]", ","}

\* (?:NOT\s+NULL|NULL|DEFAULT|PRIMARY\s+KEY|UNIQUE|REFERENCES|CHECK|CONSTRAINT)
\* matched at k: the index after the keyword, 0 when no match
constraintKeywordEnd(d, k) ==
  IF k > Len(d) THEN 0
  ELSE IF phraseEnd(d, k, <<"NOT", "NULL">>) # 0 THEN phraseEnd(d, k, <<"NOT", "NULL">>)
  ELSE IF d[k] \in {"NULL", "DEFAULT", "UNIQUE", "REFERENCES", "CHECK", "CONSTRAINT"} THEN k + 1
  ELSE phraseEnd(d, k, <<"PRIMARY", "KEY">>)

\* .* matched from e up to the end of d: e is the index after a keyword (0
\* when the keyword did not match) and '.' does not match a line break
restOfLine(d, e) == e # 0 /\ \A j \in e..Len(d) : d[j] # "\n"

\* (\s+(?:keyword).*)?\s*$ matched at q on a trimmed definition d: either q
\* is past the end, or whitespace and a keyword follow and no line break
\* comes after the keyword
constraintsMatch(d, q) ==
  \/ q > Len(d)
  \/ /\ d[q] \in WS
     /\ restOfLine(d, constraintKeywordEnd(d, skipWs(d, q)))

\* the ends the data type may have when it starts at p: every lexeme up to
\* the end is in the class and the rest of the pattern matches after it
typeEnds(d, p) ==
  {e \in p..Len(d) :
     /\ \A k \in p..e : InTypeClass(d[k])
     /\ constraintsMatch(d, e + 1)}

NoColumnMatch == [ok |-> FALSE, nameTo |-> 0, typeFrom |-> 0, typeTo |-> 0]

\* the column pattern with the name ending before n, the data type starting
\* at p and allowed to end at E; the data type is lazy, so it ends at the
\* smallest of E
columnMatchAt(d, n, p, E) ==
  IF n = 1 \/ p = n \/ p > Len(d) \/ ~IsAlphaStart(d[p]) \/ E = {}
  THEN NoColumnMatch
  ELSE [ok |-> TRUE, nameTo |-> n - 1, typeFrom |-> p, typeTo |-> Min(E)]

\* the column pattern: [ok, nameTo, typeFrom, typeTo]
columnMatch(d) ==
  columnMatchAt(d, nameEnd(d, 1), skipWs(d, nameEnd(d, 1)),
                typeEnds(d, skipWs(d, nameEnd(d, 1))))

\* /NOT\s+NULL/i.test(s), /PRIMARY\s+KEY/i.test(s)
hasPhrase(s, ws) == \E i \in 1..Len(s) : phraseEnd(s, i, ws) # 0

\* /\bNULL\b/i.test(s), /\bUNIQUE\b/i.test(s)
hasWord(s, w) == \E i \in 1..Len(s) : s[i] = w

\* the indices at which DEFAULT\s+[^,\s] matches
defaultStarts(s) ==
  {i \in 1..Len(s) :
     /\ s[i] = "DEFAULT"
     /\ skipWs(s, i + 1) > i + 1
     /\ skipWs(s, i + 1) <= Len(s)
     /\ s[skipWs(s, i + 1)] # ","}

\* ([^,\s]+(?:\([^)]*\))?) matched at a; the greedy class [^,\s]+ also
\* takes parentheses
defaultFrom(s, a) == Cat(SubSeq(s, a, FirstIdx(s, a, {n \in DOMAIN s : s[n] \in WS \/ s[n] = ","}) - 1))

\* DEFAULT\s+([^,\s]+(?:\([^)]*\))?) : the captured expression, NULL when
\* there is no match
defaultMatch(s) ==
  IF defaultStarts(s) = {} THEN NULL
  ELSE defaultFrom(s, skipWs(s, Min(defaultStarts(s)) + 1))

NoTarget == [ok |-> FALSE, table |-> <<>>, hasColumns |-> FALSE, columns |-> <<>>, end |-> 0]

\* the referenced table a..b-1 and the optional column group g
refTargetOf(t, a, b, g) ==
  IF b = a THEN NoTarget
  ELSE [ok |-> TRUE, table |-> SubSeq(t, a, b - 1),
        hasColumns |-> g.ok, columns |-> g.body,
        end |-> IF g.ok THEN g.end ELSE b]

\* (["\w.]+)\s*(?:\(([^)]+)\))? matched at a
refTarget(t, a) ==
  refTargetOf(t, a, identEnd(t, a), parenGroup(t, skipWs(t, identEnd(t, a))))

\* the indices at which REFERENCES\s+(["\w.]+) matches
refStarts(s) ==
  {i \in 1..Len(s) :
     /\ s[i] = "REFERENCES"
     /\ skipWs(s, i + 1) > i + 1
     /\ identEnd(s, skipWs(s, i + 1)) > skipWs(s, i + 1)}

\* REFERENCES\s+(["\w.]+)\s*(?:\(([^)]+)\))? : the leftmost match
refMatch(s) ==
  IF refStarts(s) = {} THEN NoTarget
  ELSE refTarget(s, skipWs(s, Min(refStarts(s)) + 1))

\* column.nullable with the PRIMARY KEY test made before the NULL tests
\* (mutation)
nullablePKFirst(constraintsPart) ==
  IF hasWord(constraintsPart, "NULL") /\ ~hasPhrase(constraintsPart, <<"NOT", "NULL">>) THEN TRUE
  ELSE IF hasPhrase(constraintsPart, <<"NOT", "NULL">>) THEN FALSE
  ELSE IF hasPhrase(constraintsPart, <<"PRIMARY", "KEY">>) THEN FALSE
  ELSE TRUE

\* column.nullable after the assignments of parseColumn: the last
\* assignment made is the one that counts
nullableOf(constraintsPart) ==
  IF hasPhrase(constraintsPart, <<"PRIMARY", "KEY">>) THEN FALSE
  ELSE IF hasWord(constraintsPart, "NULL") /\ ~hasPhrase(constraintsPart, <<"NOT", "NULL">>) THEN TRUE
  ELSE IF hasPhrase(constraintsPart, <<"NOT", "NULL">>) THEN FALSE
  ELSE TRUE

\* column.references: <<>> for null, <<[table, columns]>> otherwise
referencesOf(name, r) ==
  IF r.ok
  THEN <<[table |-> cleanIdentifier(r.table),
          columns |-> IF r.hasColumns THEN identList(r.columns) ELSE <<name>>]>>
  ELSE <<>>

\* the column object of parseColumn
columnOf(name, dataType, constraintsPart) ==
  [name |-> name,
   dataType |-> normalizeDataType(dataType),
   nullable |-> nullableOf(constraintsPart),
   defaultValue |-> defaultMatch(constraintsPart),
   isUnique |-> hasWord(constraintsPart, "UNIQUE"),
   isPrimaryKey |-> hasPhrase(constraintsPart, <<"PRIMARY", "KEY">>),
   references |-> referencesOf(name, refMatch(constraintsPart))]

\* parseColumn after the match m of the column pattern
parseColumnMatched(definition, m) ==
  IF ~m.ok THEN <<>>
  ELSE <<columnOf(cleanIdentifier(SubSeq(definition, 1, m.nameTo)),
                  SubSeq(definition, m.typeFrom, m.typeTo),
                  SubSeq(definition, m.typeTo + 1, Len(definition)))>>

\* parseColumn returns <<>> for null and <<column>> otherwise.  The
\* definition is trimmed by the caller.
parseColumn(definition) == parseColumnMatched(definition, columnMatch(definition))

\* ------------------------------------------------------------------------
\* splitTableBody, parseTableBody
\* ------------------------------------------------------------------------
\* depth when the loop of splitTableBody reaches character i: the number of
\* '(' minus the number of ')' among the characters before it
depthAt(content, i) ==
  Cardinality({j \in 1..(i - 1) : content[j] = "("})
  - Cardinality({j \in 1..(i - 1) : content[j] = ")"})

\* if (current.trim()) parts.push(current): the last piece is kept only
\* when it is not blank
pushLast(pieces) ==
  IF Trim(pieces[Len(pieces)]) # <<>> THEN pieces
  ELSE SubSeq(pieces, 1, Len(pieces) - 1)

\* the loop cuts at each comma met at depth 0 exactly
splitTableBody(content) ==
  pushLast(Pieces(content, {i \in 1..Len(content) : content[i] = "," /\ depthAt(content, i) = 0}))

\* the prefix with CONSTRAINT at i, the name a..b-1 and the next lexeme at c
constraintPrefixAt(t, i, a, b, c) ==
  IF i <= Len(t) /\ t[i] = "CONSTRAINT" /\ a > i + 1 /\ b > a /\ c > b
  THEN [has |-> TRUE, name |-> SubSeq(t, a, b - 1), next |-> c]
  ELSE [has |-> FALSE, name |-> <<>>, next |-> i]

\* (?:CONSTRAINT\s+(["\w]+)\s+)? matched at i
constraintPrefix(t, i) ==
  constraintPrefixAt(t, i, skipWs(t, i + 1), nameEnd(t, skipWs(t, i + 1)),
                     skipWs(t, nameEnd(t, skipWs(t, i + 1))))

\* KEYWORDS\s*\(([^)]+)\) matched at i, for PRIMARY KEY, UNIQUE and FOREIGN KEY
keywordGroup(t, i, ws) ==
  IF phraseEnd(t, i, ws) = 0 THEN NoGroup
  ELSE parenGroup(t, skipWs(t, phraseEnd(t, i, ws)))

NoClause ==
  [ok |-> FALSE, columns |-> <<>>, refTable |-> <<>>,
   hasRefColumns |-> FALSE, refColumns |-> <<>>, end |-> 0]

\* the clause with the column group g and the referenced table and columns
foreignKeyTarget(g, target) ==
  IF ~target.ok THEN NoClause
  ELSE [ok |-> TRUE, columns |-> g.body, refTable |-> target.table,
        hasRefColumns |-> target.hasColumns, refColumns |-> target.columns,
        end |-> target.end]

\* \s*REFERENCES\s+(["\w.]+)\s*(?:\(([^)]+)\))? after the column group g,
\* REFERENCES being expected at r
foreignKeyReferences(t, g, r) ==
  IF r > Len(t) \/ t[r] # "REFERENCES" \/ skipWs(t, r + 1) = r + 1 THEN NoClause
  ELSE foreignKeyTarget(g, refTarget(t, skipWs(t, r + 1)))

\* the clause after FOREIGN\s+KEY\s*\(([^)]+)\) matched as g
foreignKeyColumns(t, g) ==
  IF ~g.ok THEN NoClause ELSE foreignKeyReferences(t, g, skipWs(t, g.end))

\* FOREIGN\s+KEY\s*\(([^)]+)\)\s*REFERENCES\s+(["\w.]+)\s*(?:\(([^)]+)\))?
\* matched at i
foreignKeyClause(t, i) == foreignKeyColumns(t, keywordGroup(t, i, <<"FOREIGN", "KEY">>))

\* the foreign key built from a FOREIGN KEY clause
foreignKeyOf(prefix, fk) ==
  [constraintName |-> IF prefix.has THEN cleanIdentifier(prefix.name) ELSE NULL,
   columns |-> identList(fk.columns),
   referencedTable |-> cleanIdentifier(fk.refTable),
   referencedColumns |-> IF fk.hasRefColumns THEN identList(fk.refColumns)
                         ELSE identList(fk.columns)]

\* table.primaryKey = columns where the source has push (mutation)
setPrimaryKey(table, columns) == [table EXCEPT !.primaryKey = columns]

\* table.primaryKey.push(...columns)
pushPrimaryKey(table, columns) == [table EXCEPT !.primaryKey = @ \o columns]

\* the foreign key of an inline REFERENCES
inlineForeignKey(column) ==
  [constraintName |-> NULL,
   columns |-> <<column.name>>,
   referencedTable |-> column.references[1].table,
   referencedColumns |-> column.references[1].columns]

\* if (column) { table.columns.push(column); ... }
pushColumn(table, column) ==
  [(IF column.isPrimaryKey THEN pushPrimaryKey(table, <<column.name>>) ELSE table)
   EXCEPT
     !.columns = Append(@, column),
     !.foreignKeys = IF column.references # <<>> THEN Append(@, inlineForeignKey(column)) ELSE @]

\* the body of the loop of parseTableBody after its matches
parseMatched(table, prefix, pkMatch, fkMatch, uniqueMatch, column) ==
  IF pkMatch.ok
  THEN pushPrimaryKey(table, identList(pkMatch.body))
  ELSE IF fkMatch.ok
  THEN [table EXCEPT !.foreignKeys = Append(@, foreignKeyOf(prefix, fkMatch))]
  ELSE IF uniqueMatch.ok
  THEN [table EXCEPT !.uniqueConstraints = Append(@, identList(uniqueMatch.body))]
  ELSE IF column = <<>> THEN table
  ELSE pushColumn(table, column[1])

\* the matches of the loop of parseTableBody on a trimmed part
parseTrimmed(table, trimmed, prefix) ==
  parseMatched(table, prefix,
               keywordGroup(trimmed, prefix.next, <<"PRIMARY", "KEY">>),
               foreignKeyClause(trimmed, prefix.next),
               keywordGroup(trimmed, prefix.next, <<"UNIQUE">>),
               parseColumn(trimmed))

\* one iteration of the loop of parseTableBody
parsePart(table, part) ==
  IF Trim(part) = <<>> THEN table
  ELSE parseTrimmed(table, Trim(part), constraintPrefix(Trim(part), 1))

RECURSIVE parseParts(_, _, _)
parseParts(table, parts, i) ==
  IF i > Len(parts) THEN table
  ELSE parseParts(parsePart(table, parts[i]), parts, i + 1)

parseTableBody(bodyContent, table) == parseParts(table, splitTableBody(bodyContent), 1)

\* ------------------------------------------------------------------------
\* removeComments, parseTypes, parseSequences, parseTables, parseAlterTables
\* ------------------------------------------------------------------------
RECURSIVE removeLineComments(_)
\* the comment that starts at a is removed up to the end of its line
removeLineFrom(s, a) ==
  IF a > Len(s) THEN s
  ELSE SubSeq(s, 1, a - 1)
       \o removeLineComments(SubSeq(s, FirstIdx(s, a, {n \in DOMAIN s : s[n] = "\n"}), Len(s)))

\* replace(/--.*$/gm, ''): from each comment marker to the end of its line
removeLineComments(s) == removeLineFrom(s, FirstIdx(s, 1, {n \in DOMAIN s : s[n] = "--"}))

RECURSIVE removeBlockComments(_)
\* the comment that opens at a and closes at b is removed
removeBlockFrom(s, a, b) ==
  IF a > Len(s) \/ b > Len(s) THEN s
  ELSE SubSeq(s, 1, a - 1) \o removeBlockComments(SubSeq(s, b + 1, Len(s)))

\* replace(/\/\*[\s\S]*?\*\//g, ''): an unterminated block comment stays
removeBlockComments(s) ==
  removeBlockFrom(s, FirstIdx(s, 1, {n \in DOMAIN s : s[n] = "/*"}),
                  FirstIdx(s, FirstIdx(s, 1, {n \in DOMAIN s : s[n] = "/*"}) + 1,
                           {n \in DOMAIN s : s[n] = "*/"}))

removeComments(content) == removeBlockComments(removeLineComments(content))

\* (?:OPT\s+)? matched at a, x being the index after OPT (0 when OPT is not
\* at a): the indices at which the pattern may go on, the longer match first
optionalPhrase(t, a, x) ==
  IF x # 0 /\ skipWs(t, x) > x THEN <<skipWs(t, x), a>> ELSE <<a>>

\* \s+(?:OPT\s+)? matched at e, the index after the keywords (0 when they
\* did not match)
nameStartsAfter(t, e, opt) ==
  IF e = 0 \/ skipWs(t, e) = e THEN <<>>
  ELSE optionalPhrase(t, skipWs(t, e), phraseEnd(t, skipWs(t, e), opt))

\* KEYWORDS\s+(?:OPT\s+)? matched at i: the indices at which the name may
\* start, <<>> when the keywords do not match
nameStarts(t, i, ws, opt) == nameStartsAfter(t, phraseEnd(t, i, ws), opt)

IfNotExists == <<"IF", "NOT", "EXISTS">>

\* \s*\(\s*([^)]+)\s*\) matched as g after the name c..d-1
typeMatchValues(t, c, d, g) ==
  IF ~g.ok THEN NoMatch
  ELSE [ok |-> TRUE, name |-> SubSeq(t, c, d - 1), values |-> g.body, end |-> g.end]

\* AS\s+ENUM matched up to h (0 when no match) after the name c..d-1
typeMatchEnum(t, c, d, h) ==
  IF h = 0 THEN NoMatch ELSE typeMatchValues(t, c, d, parenGroup(t, skipWs(t, h)))

\* (["\w.]+)\s+ matched as c..d-1
typeMatchName(t, c, d) ==
  IF d = c \/ skipWs(t, d) = d THEN NoMatch
  ELSE typeMatchEnum(t, c, d, phraseEnd(t, skipWs(t, d), <<"AS", "ENUM">>))

\* typeRegex with the name starting at c
typeMatchFrom(t, c) == typeMatchName(t, c, identEnd(t, c))

typeMatchAmong(t, cs) == firstOk([k \in 1..Len(cs) |-> typeMatchFrom(t, cs[k])])

\* typeRegex matched at i
typeMatch(t, i) == typeMatchAmong(t, nameStarts(t, i, <<"CREATE", "TYPE">>, IfNotExists))

\* v.trim().replace(/^'|'$/g, '')
enumValue(v) == Cat(stripEnds(Trim(v), "'"))

\* .split(',').map(v => ...).filter(v => v.length > 0)
enumValues(pieces) ==
  SelectSeq([k \in 1..Len(pieces) |-> enumValue(pieces[k])], LAMBDA v : v # "")

RECURSIVE parseTypesFrom(_, _, _)
\* the body of the loop of parseTypes for the match, then the next exec
pushType(content, match, sourceFile) ==
  IF ~match.ok THEN <<>>
  ELSE <<[name |-> cleanIdentifier(match.name),
          values |-> enumValues(SplitOn(match.values, ",")),
          sourceFile |-> sourceFile]>>
       \o parseTypesFrom(content, match.end, sourceFile)

\* the loop of parseTypes with typeRegex.lastIndex at p
parseTypesFrom(content, p, sourceFile) ==
  pushType(content, firstOkFrom([n \in DOMAIN content |-> typeMatch(content, n)], p), sourceFile)

parseTypes(content, sourceFile) == parseTypesFrom(content, 1, sourceFile)

\* ([^;]*) matched from d to e-1 after the name c..d-1
seqMatchOptions(t, c, d, e) ==
  IF d = c THEN NoMatch
  ELSE [ok |-> TRUE, name |-> SubSeq(t, c, d - 1), options |-> SubSeq(t, d, e - 1), end |-> e]

\* seqRegex with the name starting at c; the options run to the next ';'
seqMatchFrom(t, c) ==
  seqMatchOptions(t, c, identEnd(t, c), FirstIdx(t, identEnd(t, c), {n \in DOMAIN t : t[n] = ";"}))

seqMatchAmong(t, cs) == firstOk([k \in 1..Len(cs) |-> seqMatchFrom(t, cs[k])])

\* seqRegex matched at i
seqMatch(t, i) == seqMatchAmong(t, nameStarts(t, i, <<"CREATE", "SEQUENCE">>, IfNotExists))

\* \s+(?:OPT\s+)?(\d+) matched after the keyword at i, a being the index
\* reached by \s*: the index of the number, 0 when no match
numberAfter(o, i, opt, a) ==
  IF a = i + 1 \/ a > Len(o) THEN 0
  ELSE IF o[a] = opt /\ skipWs(o, a + 1) > a + 1 /\ skipWs(o, a + 1) <= Len(o)
          /\ IsNum(o[skipWs(o, a + 1)])
  THEN skipWs(o, a + 1)
  ELSE IF IsNum(o[a]) THEN a
  ELSE 0

\* KW\s+(?:OPT\s+)?(\d+) matched at i: the index of the number, 0 when no
\* match
numberAt(o, i, kw, opt) ==
  IF o[i] # kw THEN 0 ELSE numberAfter(o, i, opt, skipWs(o, i + 1))

\* parseInt(match[1], 10) when the pattern matched at i, dflt otherwise
numberOr(o, i, kw, opt, dflt) ==
  IF i = 0 THEN dflt ELSE NumVal[o[numberAt(o, i, kw, opt)]]

\* options.match(/KW\s+(?:OPT\s+)?(\d+)/i): the number of the leftmost
\* match, dflt when there is none
numberOption(options, kw, opt, dflt) ==
  numberOr(options, MinOr({i \in 1..Len(options) : numberAt(options, i, kw, opt) # 0}, 0),
           kw, opt, dflt)

RECURSIVE parseSequencesFrom(_, _, _)
\* the body of the loop of parseSequences for the match, then the next exec
pushSequence(content, match, sourceFile) ==
  IF ~match.ok THEN <<>>
  ELSE <<[name |-> cleanIdentifier(match.name),
          start |-> numberOption(match.options, "START", "WITH", 1),
          increment |-> numberOption(match.options, "INCREMENT", "BY", 1),
          sourceFile |-> sourceFile]>>
       \o parseSequencesFrom(content, match.end, sourceFile)

\* the loop of parseSequences with seqRegex.lastIndex at p
parseSequencesFrom(content, p, sourceFile) ==
  pushSequence(content, firstOkFrom([n \in DOMAIN content |-> seqMatch(content, n)], p), sourceFile)

parseSequences(content, sourceFile) == parseSequencesFrom(content, 1, sourceFile)

\* ([\s\S]*?)\)\s*; after the '(' at e: the indices of a ')' followed by \s*;
bodyEnds(t, e) ==
  {j \in (e + 1)..Len(t) :
     /\ t[j] = ")"
     /\ skipWs(t, j + 1) <= Len(t)
     /\ t[skipWs(t, j + 1)] = ";"}

\* the body from the '(' at e to the ')' at j (0 when there is none)
tableMatchClose(t, c, d, e, j) ==
  IF j = 0 THEN NoMatch
  ELSE [ok |-> TRUE, name |-> SubSeq(t, c, d - 1),
        body |-> SubSeq(t, e + 1, j - 1), end |-> skipWs(t, j + 1) + 1]

\* (["\w.]+)\s*\( matched as c..d-1 with '(' expected at e; the body is
\* lazy and ends at the first ')' that is followed by \s*;
tableMatchBody(t, c, d, e) ==
  IF d = c \/ e > Len(t) \/ t[e] # "(" THEN NoMatch
  ELSE tableMatchClose(t, c, d, e, MinOr(bodyEnds(t, e), 0))

\* tableRegex with the name starting at c
tableMatchFrom(t, c) == tableMatchBody(t, c, identEnd(t, c), skipWs(t, identEnd(t, c)))

tableMatchAmong(t, cs) == firstOk([k \in 1..Len(cs) |-> tableMatchFrom(t, cs[k])])

\* tableRegex matched at i
tableMatch(t, i) == tableMatchAmong(t, nameStarts(t, i, <<"CREATE", "TABLE">>, IfNotExists))

\* const table = { name: tableName, columns: [], ... }
newTable(tableName, sourceFile) ==
  [name |-> tableName,
   columns |-> <<>>, primaryKey |-> <<>>, foreignKeys |-> <<>>,
   uniqueConstraints |-> <<>>, sourceFile |-> sourceFile]

RECURSIVE parseTablesFrom(_, _, _)
\* the body of the loop of parseTables for the match, then the next exec
pushTable(content, match, sourceFile) ==
  IF ~match.ok THEN <<>>
  ELSE <<parseTableBody(match.body, newTable(cleanIdentifier(match.name), sourceFile))>>
       \o parseTablesFrom(content, match.end, sourceFile)

\* the loop of parseTables with tableRegex.lastIndex at p
parseTablesFrom(content, p, sourceFile) ==
  pushTable(content, firstOkFrom([n \in DOMAIN content |-> tableMatch(content, n)], p), sourceFile)

parseTables(content, sourceFile) == parseTablesFrom(content, 1, sourceFile)

\* the FOREIGN KEY clause fk after the table name c..d-1 and the prefix
alterMatchClause(t, c, d, prefix, fk) ==
  IF ~fk.ok THEN NoMatch
  ELSE [ok |-> TRUE, table |-> SubSeq(t, c, d - 1), prefix |-> prefix, fk |-> fk,
        end |-> fk.end]

\* (?:CONSTRAINT\s+(["\w]+)\s+)? matched as prefix after ADD\s+
alterMatchPrefix(t, c, d, prefix) ==
  alterMatchClause(t, c, d, prefix, foreignKeyClause(t, prefix.next))

\* (["\w.]+)\s+ADD\s+ matched as c..d-1 with ADD expected at a
alterMatchAdd(t, c, d, a) ==
  IF d = c \/ a = d \/ a > Len(t) \/ t[a] # "ADD" \/ skipWs(t, a + 1) = a + 1 THEN NoMatch
  ELSE alterMatchPrefix(t, c, d, constraintPrefix(t, skipWs(t, a + 1)))

\* alterRegex with the table name starting at c
alterMatchFrom(t, c) == alterMatchAdd(t, c, identEnd(t, c), skipWs(t, identEnd(t, c)))

alterMatchAmong(t, cs) == firstOk([k \in 1..Len(cs) |-> alterMatchFrom(t, cs[k])])

\* alterRegex matched at i
alterMatch(t, i) == alterMatchAmong(t, nameStarts(t, i, <<"ALTER", "TABLE">>, <<"ONLY">>))

\* tables.find(t => t.name === tableName): its index, 0 when undefined
findTable(tables, tableName) == MinOr({k \in 1..Len(tables) : tables[k].name = tableName}, 0)

\* if (table) { table.foreignKeys.push({...}) }, table being tables[k]
pushForeignKey(tables, k, fk) ==
  IF k = 0 THEN tables
  ELSE [tables EXCEPT ![k].foreignKeys = Append(@, fk)]

RECURSIVE parseAlterTablesFrom(_, _, _)
\* the body of the loop of parseAlterTables for the match, then the next exec
pushAlter(content, match, tables) ==
  IF ~match.ok THEN tables
  ELSE parseAlterTablesFrom(content, match.end,
         pushForeignKey(tables, findTable(tables, cleanIdentifier(match.table)),
                        foreignKeyOf(match.prefix, match.fk)))

\* the loop of parseAlterTables with alterRegex.lastIndex at p
parseAlterTablesFrom(content, p, tables) ==
  pushAlter(content, firstOkFrom([n \in DOMAIN content |-> alterMatch(content, n)], p), tables)

\* parseAlterTables pushes into the tables it is given; the model returns them
parseAlterTables(content, tables) == parseAlterTablesFrom(content, 1, tables)

\* ------------------------------------------------------------------------
\* parseDDL, resolveForeignKeys
\* ------------------------------------------------------------------------
\* a file content that is not a string
Undefined == <<"<undefined>">>

\* content.replace is not a function: removeComments throws a TypeError, and
\* nothing in parseDDL catches it
parseDDLThrows(content) == content = Undefined

TableNames(ts) == {ts[k].name : k \in 1..Len(ts)}

\* the tables after resolveForeignKeys, with the filtered list not assigned
\* back (mutation)
resolveForeignKeysUnassigned(tables) == tables

\* the tables after resolveForeignKeys
resolveForeignKeys(tables) ==
  [k \in 1..Len(tables) |->
     [tables[k] EXCEPT !.foreignKeys =
        SelectSeq(@, LAMBDA fk : fk.referencedTable \in TableNames(tables))]]

\* parseDDL on content without comments
parseClean(cleanContent, sourceFile) ==
  [types |-> parseTypes(cleanContent, sourceFile),
   sequences |-> parseSequences(cleanContent, sourceFile),
   tables |-> parseAlterTables(cleanContent, parseTables(cleanContent, sourceFile))]

\* parseDDL pruning the foreign keys against the tables of its own file
\* (mutation: resolution before the batch is complete)
parseDDLResolving(content, sourceFile) ==
  [parseClean(removeComments(content), sourceFile) EXCEPT !.tables = resolveForeignKeys(@)]

\* the schema parseDDL returns: [tables, types, sequences]
parseDDL(content, sourceFile) == parseClean(removeComments(content), sourceFile)

\* the console.warn calls for the foreign keys dropped from table
warningsOf(table, dropped) ==
  [j \in 1..Len(dropped) |->
     [level |-> "warn", file |-> NULL, table |-> table.name,
      referencedTable |-> dropped[j].referencedTable]]

\* the first foreign key of fks to each table that is not among names
firstDropped(fks, names) ==
  {j \in 1..Len(fks) :
     /\ fks[j].referencedTable \notin names
     /\ \A i \in 1..(j - 1) : fks[i].referencedTable # fks[j].referencedTable}

\* console.warn called for every foreign key, kept or dropped (mutation)
RECURSIVE resolveWarningsAll(_, _)
resolveWarningsAll(tables, k) ==
  IF k > Len(tables) THEN <<>>
  ELSE warningsOf(tables[k], tables[k].foreignKeys) \o resolveWarningsAll(tables, k + 1)

\* one warning per table and unknown referenced table (mutation)
RECURSIVE resolveWarningsOnce(_, _)
resolveWarningsOnce(tables, k) ==
  IF k > Len(tables) THEN <<>>
  ELSE warningsOf(tables[k],
                  [j \in 1..Cardinality(firstDropped(tables[k].foreignKeys, TableNames(tables))) |->
                     tables[k].foreignKeys[Nth(firstDropped(tables[k].foreignKeys, TableNames(tables)), j)]])
       \o resolveWarningsOnce(tables, k + 1)

\* the console.warn calls of resolveForeignKeys, in order
RECURSIVE resolveWarnings(_, _)
resolveWarnings(tables, k) ==
  IF k > Len(tables) THEN <<>>
  ELSE warningsOf(tables[k],
                  SelectSeq(tables[k].foreignKeys,
                            LAMBDA fk : fk.referencedTable \notin TableNames(tables)))
       \o resolveWarnings(tables, k + 1)

\* ------------------------------------------------------------------------
\* Inputs: SQL texts
\* ------------------------------------------------------------------------
\* the words ws separated by single spaces
RECURSIVE W(_)
W(ws) == IF Len(ws) <= 1 THEN ws ELSE <<Head(ws), " ">> \o W(Tail(ws))

\* the texts ts joined by sep
RECURSIVE Join(_, _)
Join(ts, sep) ==
  IF ts = <<>> THEN <<>>
  ELSE IF Len(ts) = 1 THEN ts[1]
  ELSE ts[1] \o sep \o Join(Tail(ts), sep)

\* (a, b, ...)
Parens(args) == <<"(">> \o Join([k \in 1..Len(args) |-> <<args[k]>>], <<",", " ">>) \o <<")">>

\* CREATE TABLE name (\n body \n);
CreateTable(name, body) ==
  W(<<"CREATE", "TABLE", name, "(">>) \o <<"\n", " ">> \o body \o <<"\n", ")", ";", "\n">>

\* The elements a table body is built from.  kind, name, pk and refs say
\* what the element declares: a column element declares the column name; pk
\* lists the columns it adds to the primary key; refs lists the tables its
\* foreign keys reference.
Element(kind, name, pk, refs, text) ==
  [kind |-> kind, name |-> name, pk |-> pk, refs |-> refs, text |-> text]

ColumnElements ==
  { Element("column", "id", <<"id">>, <<>>, W(<<"id", "INT", "PRIMARY", "KEY">>)),
    Element("column", "user_id", <<>>, <<"users">>,
            W(<<"user_id", "INTEGER", "NOT", "NULL", "REFERENCES", "users">>) \o Parens(<<"id">>)),
    Element("column", "parent_id", <<>>, <<"nodes">>,
            W(<<"parent_id", "INT", "REFERENCES", "nodes">>)),
    Element("column", "price", <<>>, <<>>,
            W(<<"price", "NUMERIC">>) \o Parens(<<"10", "2">>) \o <<" ">> \o W(<<"DEFAULT", "0">>)),
    Element("column", "note", <<>>, <<>>,
            W(<<"note", "TEXT", "DEFAULT">>) \o <<" ", "'", "a", ",", " ", "b", " ", "c", ",", " ", "d", "'">>),
    Element("column", "pair", <<>>, <<"points">>,
            W(<<"pair", "INT", "REFERENCES", "points">>) \o Parens(<<"x", "y">>)) }

ConstraintElements ==
  { Element("constraint", "", <<"id", "user_id">>, <<>>,
            W(<<"PRIMARY", "KEY">>) \o <<" ">> \o Parens(<<"id", "user_id">>)),
    Element("constraint", "", <<>>, <<"users">>,
            W(<<"CONSTRAINT", "fk_user", "FOREIGN", "KEY">>) \o <<" ">> \o Parens(<<"user_id">>)
              \o <<" ", "REFERENCES", " ", "users">> \o Parens(<<"id">>)),
    Element("constraint", "", <<>>, <<"points">>,
            W(<<"FOREIGN", "KEY">>) \o <<" ">> \o Parens(<<"a", "b">>)
              \o <<" ", "REFERENCES", " ", "points">>),
    Element("constraint", "", <<>>, <<"points">>,
            W(<<"FOREIGN", "KEY">>) \o <<" ">> \o Parens(<<"a", "b">>)
              \o <<" ", "REFERENCES", " ", "points">> \o Parens(<<"x">>)),
    Element("constraint", "", <<>>, <<>>,
            W(<<"CONSTRAINT", "uq_ab", "UNIQUE">>) \o <<" ">> \o Parens(<<"a", "b">>)) }

Elements == ColumnElements \cup ConstraintElements

\* at most MaxElements elements in a table body
MaxElements == 3

SeqsUpTo(S, n) == UNION {[1..k -> S] : k \in 0..n}

\* the text of a table declaration with the given elements
TableText(name, es) ==
  CreateTable(name, Join([k \in 1..Len(es) |-> es[k].text], <<",", "\n", " ">>))

\* the markers a column definition may carry after its name and data type
Markers ==
  { W(<<"NULL">>), W(<<"NOT", "NULL">>), W(<<"DEFAULT", "0">>), W(<<"UNIQUE">>),
    W(<<"REFERENCES", "users">>) \o Parens(<<"id">>), W(<<"PRIMARY", "KEY">>) }

\* at most MaxMarkers markers on a column
MaxMarkers == 3

\* the sequences of distinct markers, in every order
MarkerSeqs ==
  {ms \in SeqsUpTo(Markers, MaxMarkers) : \A a, b \in 1..Len(ms) : a # b => ms[a] # ms[b]}

ColumnText(ms) == Join(<<W(<<"id", "INT">>)>> \o ms, <<" ">>)

\* The files of a batch.  decl says what a file declares: its tables, enum
\* types and sequences by name, the foreign keys of its CREATE TABLE
\* statements as <<table, referenced table>>, and the foreign keys of its
\* ALTER TABLE statements as [table, fk].
File(content, tables, types, sequences, fks, alters) ==
  [content |-> content,
   decl |-> [tables |-> tables, types |-> types, sequences |-> sequences,
             fks |-> fks, alters |-> alters]]

UsersSql ==
  File(CreateTable("users", W(<<"id", "INT", "PRIMARY", "KEY">>)),
       <<"users">>, <<>>, <<>>, <<>>, <<>>)

OrdersSql ==
  File(CreateTable("orders",
         W(<<"id", "INT", "PRIMARY", "KEY">>) \o <<",", "\n", " ">>
         \o W(<<"user_id", "INT", "REFERENCES", "users">>) \o Parens(<<"id">>)),
       <<"orders">>, <<>>, <<>>, <<<<"orders", "users">>>>, <<>>)

\* two foreign keys to a table no file declares, one to orders
ItemsSql ==
  File(CreateTable("items",
         W(<<"id", "INT", "PRIMARY", "KEY">>) \o <<",", "\n", " ">>
         \o W(<<"order_id", "INT">>) \o <<",", "\n", " ">>
         \o W(<<"ghost_id", "INT", "REFERENCES", "ghost">>) \o Parens(<<"id">>) \o <<",", "\n", " ">>
         \o W(<<"FOREIGN", "KEY">>) \o <<" ">> \o Parens(<<"order_id">>)
         \o <<" ", "REFERENCES", " ", "orders">> \o Parens(<<"id">>) \o <<",", "\n", " ">>
         \o W(<<"CONSTRAINT", "fk_ghost", "FOREIGN", "KEY">>) \o <<" ">> \o Parens(<<"ghost_id">>)
         \o <<" ", "REFERENCES", " ", "ghost">>),
       <<"items">>, <<>>, <<>>,
       <<<<"items", "ghost">>, <<"items", "orders">>, <<"items", "ghost">>>>, <<>>)

\* a second table named users, referencing itself
TreeSql ==
  File(CreateTable("users",
         W(<<"id", "INT", "PRIMARY", "KEY">>) \o <<",", "\n", " ">>
         \o W(<<"parent_id", "INT", "REFERENCES", "users">>) \o Parens(<<"id">>)),
       <<"users">>, <<>>, <<>>, <<<<"users", "users">>>>, <<>>)

FkUser ==
  [constraintName |-> "fk_user", columns |-> <<"user_id">>,
   referencedTable |-> "users", referencedColumns |-> <<"id">>]

\* the README's ALTER TABLE statement, alone in its file
AlterSql ==
  File(W(<<"ALTER", "TABLE", "orders", "ADD", "CONSTRAINT", "fk_user">>) \o <<"\n", " ">>
         \o W(<<"FOREIGN", "KEY">>) \o <<" ">> \o Parens(<<"user_id">>)
         \o <<" ", "REFERENCES", " ", "users">> \o Parens(<<"id">>) \o <<";", "\n">>,
       <<>>, <<>>, <<>>, <<>>, <<[table |-> "orders", fk |-> FkUser]>>)

FkAccount ==
  [constraintName |-> NULL, columns |-> <<"user_id">>,
   referencedTable |-> "users", referencedColumns |-> <<"user_id">>]

\* a table and an ALTER TABLE for it in the same file
AccountsSql ==
  File(CreateTable("orders",
         W(<<"id", "INT", "PRIMARY", "KEY">>) \o <<",", "\n", " ">> \o W(<<"user_id", "INT">>))
       \o W(<<"ALTER", "TABLE", "ONLY">>) \o <<" ", "public", ".", "orders", " ">>
       \o W(<<"ADD", "FOREIGN", "KEY">>) \o <<" ">> \o Parens(<<"user_id">>)
       \o <<" ", "REFERENCES", " ", "users", ";", "\n">>,
       <<"orders">>, <<>>, <<>>, <<>>, <<[table |-> "orders", fk |-> FkAccount]>>)

\* a comment, an enum type and a sequence
StatusSql ==
  File(<<"--", " ", "CREATE", " ", "TABLE", " ", "draft", "\n">>
       \o W(<<"CREATE", "TYPE", "status", "AS", "ENUM">>)
       \o <<" ", "(", "'", "active", "'", ",", " ", "'", "inactive", "'", ")", ";", "\n">>
       \o W(<<"CREATE", "SEQUENCE", "user_id_seq", "START", "5">>) \o <<";", "\n">>,
       <<>>, <<"status">>, <<"user_id_seq">>, <<>>, <<>>)

\* a foreign key on one column that lists two referenced columns
PointsSql ==
  File(CreateTable("points",
         W(<<"x", "INT">>) \o <<",", " ">> \o W(<<"y", "INT">>) \o <<",", "\n", " ">>
         \o W(<<"origin", "INT", "REFERENCES", "points">>) \o Parens(<<"x", "y">>)),
       <<"points">>, <<>>, <<>>, <<<<"points", "points">>>>, <<>>)

\* three tables, two of them with the same name, one named as the table of
\* UsersSql
LogsSql ==
  File(CreateTable("logs", W(<<"id", "INT">>))
       \o CreateTable("users", W(<<"id", "INT">>))
       \o CreateTable("logs", W(<<"at", "INT">>)),
       <<"logs", "users", "logs">>, <<>>, <<>>, <<>>, <<>>)

\* a file whose content is not a string
BrokenSql == File(Undefined, <<>>, <<>>, <<>>, <<>>, <<>>)

FileCatalog ==
  {UsersSql, OrdersSql, ItemsSql, TreeSql, AlterSql, AccountsSql, StatusSql, PointsSql,
   LogsSql, BrokenSql}

\* at most MaxFiles files in a batch
MaxFiles == 3

PathOf(k) == "f" \o ToString(k) \o ".sql"

\* the batches: every sequence of distinct catalog files, the k-th at path
\* PathOf(k)
Batches ==
  {[k \in 1..Len(fs) |-> [path |-> PathOf(k), content |-> fs[k].content, decl |-> fs[k].decl]] :
     fs \in {gs \in SeqsUpTo(FileCatalog, MaxFiles) :
               \A a, b \in DOMAIN gs : a # b => gs[a] # gs[b]}}

\* ------------------------------------------------------------------------
\* State
\* ------------------------------------------------------------------------
VARIABLES
  pc,        \* the position of the run: "start", "loop", "done"
  files,     \* parseAllFiles: the batch
  idx,       \* parseAllFiles: the index of the file the loop is at
  schema,    \* parseAllFiles: the schema being built
  console,   \* the console.error and console.warn calls so far
  elements,  \* the elements of the table declaration given to parseTables
  tables,    \* the result of parseTables
  markers,   \* the markers of the column definition given to parseColumn
  column,    \* the result of parseColumn
  openFolderPath,  \* LayoutInner: the openFolderPath state
  listeners,       \* the handler sets registered on ipcRenderer, oldest first:
                   \* for each, the openFolderPath its handlers closed over
  uiSchema,        \* SchemaContext: the batch that produced schema, and its folder
  isLoading,       \* SchemaContext: isLoading
  parseError,      \* SchemaContext: error
  batches,         \* the calls of parseSchema in call order: folder and status
  model,           \* analyzeSchema: the schema it is given
  issues,          \* analyzeSchema: the list it returns
  viewSchema,      \* SchemaViewInner: the schema of useSchema
  nodePositions,   \* ProjectSettingsContext: settings.nodePositions
  settingsLoaded,  \* ProjectSettingsContext: isLoaded
  schemaNodes,     \* SchemaViewInner: the memoized schemaNodes
  nodes,           \* SchemaViewInner: the nodes of useNodesState
  layoutDirection, \* SchemaViewInner: layoutDirection
  groupByFolder,   \* SchemaViewInner: groupByFolder
  collapsedNodes,  \* SchemaViewInner: the ids collapsedNodes maps to true
  dagreCalls,      \* the nodes given to dagre by the last step, with the
                   \* centres dagre gave them
  dagreEdges,      \* the edges given to dagre by the last step
  dagreLayouts,    \* the graphs the last step called dagre.layout on
  layoutLog,       \* the last message the layout effect logged
  identifier,      \* cleanIdentifier: the identifier it is given
  cleaned,         \* cleanIdentifier: the string it returns
  mainWindow,        \* main.js: TRUE while the window exists
  currentFolderPath, \* main.js: currentFolderPath
  fileWatcher,       \* main.js: the index in watchers of fileWatcher, 0 for null
  watchers,          \* the chokidar watchers created so far: folder and closed
  opens,             \* the calls of openFolder so far: folder and status
  sent,              \* the file events sent to the renderer: the folder watched
                     \* and currentFolderPath when it was sent
  openFiles,         \* EditorContext: the tabs
  activeFilePath,    \* EditorContext: activeFilePath
  disk,              \* the content of each file on disk
  reads,             \* the calls of window.electron.readFile in flight: the path
  saves              \* the calls of window.electron.saveFile in flight: the path
                     \* and the content given

parserVars == <<files, idx, schema, console, elements, tables, markers, column>>

uiVars == <<openFolderPath, listeners, uiSchema, isLoading, parseError, batches>>

analysisVars == <<model, issues>>

layoutVars ==
  <<viewSchema, nodePositions, settingsLoaded, schemaNodes, nodes, layoutDirection,
    groupByFolder, collapsedNodes, dagreCalls, dagreEdges, dagreLayouts, layoutLog>>

identVars == <<identifier, cleaned>>

mainVars == <<mainWindow, currentFolderPath, fileWatcher, watchers, opens, sent>>

editorVars == <<openFiles, activeFilePath, disk, reads, saves>>

otherVars == <<identVars, mainVars, editorVars>>

toolVars == <<analysisVars, layoutVars, otherVars>>

vars == <<pc, parserVars, uiVars, toolVars>>

EmptySchema == [tables |-> <<>>, types |-> <<>>, sequences |-> <<>>]

BatchIdle == files = <<>> /\ idx = 0 /\ schema = EmptySchema /\ console = <<>>

TableIdle == elements = <<>> /\ tables = <<>>

ColumnIdle == markers = <<>> /\ column = <<>>

\* the schema SchemaProvider starts with and clearSchema sets
ClearedSchema == [batch |-> 0, folder |-> NULL]

UiIdle ==
  /\ openFolderPath = NULL /\ listeners = <<>> /\ uiSchema = ClearedSchema
  /\ isLoading = FALSE /\ parseError = NULL /\ batches = <<>>

AnalysisIdle == model = EmptySchema /\ issues = <<>>

\* the state of SchemaViewInner and of the settings before a folder is open
EmptyView == [tables |-> <<>>, types |-> <<>>]

LayoutIdle ==
  /\ viewSchema = EmptyView /\ nodePositions = <<>> /\ settingsLoaded = FALSE
  /\ schemaNodes = <<>> /\ nodes = <<>> /\ layoutDirection = "LR"
  /\ groupByFolder = FALSE /\ collapsedNodes = {} /\ dagreCalls = <<>>
  /\ dagreEdges = <<>> /\ dagreLayouts = <<>> /\ layoutLog = NULL

IdentIdle == identifier = <<>> /\ cleaned = NULL

MainIdle ==
  /\ mainWindow = FALSE /\ currentFolderPath = NULL /\ fileWatcher = 0
  /\ watchers = <<>> /\ opens = <<>> /\ sent = {}

EditorIdle ==
  /\ openFiles = <<>> /\ activeFilePath = NULL /\ disk = <<>> /\ reads = <<>>
  /\ saves = <<>>

OtherIdle == IdentIdle /\ MainIdle /\ EditorIdle

ToolsIdle == AnalysisIdle /\ LayoutIdle /\ OtherIdle

\* ------------------------------------------------------------------------
\* parseAllFiles
\* ------------------------------------------------------------------------
InitBatch ==
  /\ pc = "loop"
  /\ files \in Batches
  /\ idx = 1
  /\ schema = EmptySchema
  /\ console = <<>>
  /\ TableIdle /\ ColumnIdle /\ UiIdle /\ ToolsIdle

\* the tables of a file are pushed only when the schema has no table of
\* the same name yet (mutation)
pushAllUnique(s, fileSchema) ==
  [tables |-> s.tables \o SelectSeq(fileSchema.tables, LAMBDA t : t.name \notin TableNames(s.tables)),
   types |-> s.types \o fileSchema.types,
   sequences |-> s.sequences \o fileSchema.sequences]

\* schema.tables.push(...fileSchema.tables), and the same for types and
\* sequences
pushAll(s, fileSchema) ==
  [tables |-> s.tables \o fileSchema.tables,
   types |-> s.types \o fileSchema.types,
   sequences |-> s.sequences \o fileSchema.sequences]

\* one iteration of the loop whose try block completes
ParseFile ==
  /\ pc = "loop" /\ idx <= Len(files)
  /\ ~parseDDLThrows(files[idx].content)
  /\ schema' = pushAll(schema, parseDDL(files[idx].content, files[idx].path))
  /\ idx' = idx + 1
  /\ UNCHANGED <<pc, files, console, elements, tables, markers, column, uiVars, toolVars>>

\* the exception of parseDDL leaves parseAllFiles (mutation: no try/catch)
ParseFileRethrow ==
  /\ pc = "loop" /\ idx <= Len(files)
  /\ parseDDLThrows(files[idx].content)
  /\ pc' = "threw"
  /\ UNCHANGED <<files, idx, schema, console, elements, tables, markers, column, uiVars, toolVars>>

\* one iteration of the loop in which parseDDL throws
ParseFileCatch ==
  /\ pc = "loop" /\ idx <= Len(files)
  /\ parseDDLThrows(files[idx].content)
  /\ console' = Append(console, [level |-> "error", file |-> files[idx].path,
                                 table |-> NULL, referencedTable |-> NULL])
  /\ idx' = idx + 1
  /\ UNCHANGED <<pc, files, schema, elements, tables, markers, column, uiVars, toolVars>>

\* the end of parseAllFiles: resolveForeignKeys(schema); return schema
Resolve ==
  /\ pc = "loop" /\ idx > Len(files)
  /\ schema' = [schema EXCEPT !.tables = resolveForeignKeys(schema.tables)]
  /\ console' = console \o resolveWarnings(schema.tables, 1)
  /\ pc' = "done"
  /\ UNCHANGED <<files, idx, elements, tables, markers, column, uiVars, toolVars>>

NextBatch == ParseFile \/ ParseFileCatch \/ Resolve

SpecBatch == InitBatch /\ [][NextBatch]_vars

\* ------------------------------------------------------------------------
\* parseTables on one table declaration, parseColumn on one definition
\* ------------------------------------------------------------------------
InitTable ==
  /\ pc = "start"
  /\ elements \in SeqsUpTo(Elements, MaxElements)
  /\ tables = <<>>
  /\ BatchIdle /\ ColumnIdle /\ UiIdle /\ ToolsIdle

ParseTable ==
  /\ pc = "start"
  /\ tables' = parseTables(TableText("t", elements), "t.sql")
  /\ pc' = "done"
  /\ UNCHANGED <<files, idx, schema, console, elements, markers, column, uiVars, toolVars>>

SpecTable == InitTable /\ [][ParseTable]_vars

InitColumn ==
  /\ pc = "start"
  /\ markers \in MarkerSeqs
  /\ column = <<>>
  /\ BatchIdle /\ TableIdle /\ UiIdle /\ ToolsIdle

ParseColumn ==
  /\ pc = "start"
  /\ column' = parseColumn(ColumnText(markers))
  /\ pc' = "done"
  /\ UNCHANGED <<files, idx, schema, console, elements, tables, markers, uiVars, toolVars>>

SpecColumn == InitColumn /\ [][ParseColumn]_vars

\* ------------------------------------------------------------------------
\* cleanIdentifier on one identifier
\* ------------------------------------------------------------------------
IdentNames == {"a", "b", "users", "id", "user_id"}

IdentSchemas == {"public", "s"}

Quoted(w) == <<"\"", w, "\"">>

\* name, "name", schema.name, "schema"."name", schema."name", "schema".name
IdentifierForms(schemaName, name) ==
  {<<name>>, Quoted(name), <<schemaName, ".", name>>,
   Quoted(schemaName) \o <<".">> \o Quoted(name),
   <<schemaName, ".">> \o Quoted(name),
   Quoted(schemaName) \o <<".", name>>}

\* the white space the matched text may carry around the identifier
Paddings == {<<>>, <<" ">>}

Identifiers ==
  UNION {{l \o f \o r : f \in IdentifierForms(q[1], q[2]), l \in Paddings, r \in Paddings} :
         q \in IdentSchemas \X IdentNames}

InitIdentifier ==
  /\ pc = "identifier"
  /\ identifier \in Identifiers
  /\ cleaned = NULL
  /\ BatchIdle /\ TableIdle /\ ColumnIdle /\ UiIdle /\ AnalysisIdle /\ LayoutIdle /\ MainIdle
  /\ EditorIdle

CleanIdentifier ==
  /\ pc = "identifier"
  /\ cleaned' = cleanIdentifier(identifier)
  /\ pc' = "cleaned"
  /\ UNCHANGED <<parserVars, uiVars, analysisVars, layoutVars, identifier, mainVars,
                 editorVars>>

SpecIdentifier == InitIdentifier /\ [][CleanIdentifier]_vars

\* ------------------------------------------------------------------------
\* The renderer: LayoutInner and SchemaContext
\* ------------------------------------------------------------------------
\* The effect of LayoutInner registers its handlers with ipcRenderer.on and
\* never removes them; it runs again after every render in which one of the
\* handlers is a new function.  handleFileChanged, handleFileAdded and
\* handleFileRemoved close over openFolderPath, handleExportMarkdownDocs over
\* schema, so the effect runs again after every change of openFolderPath or
\* of schema.  A render and its effect are taken together with the handler
\* that changed the state.  The file tree (sqlFiles) is left out.
Folders == {"A", "B"}

\* at most MaxBatches calls of parseSchema
MaxBatches == 4

Reading(f) == [folder |-> f, status |-> "reading"]

\* the batches in flight: readAllFiles has not answered yet
InFlight == {b \in 1..Len(batches) : batches[b].status = "reading"}

Init ==
  /\ pc = "ui"
  /\ openFolderPath = NULL
  /\ listeners = <<NULL>>
  /\ uiSchema = ClearedSchema
  /\ isLoading = FALSE
  /\ parseError = NULL
  /\ batches = <<>>
  /\ BatchIdle /\ TableIdle /\ ColumnIdle /\ ToolsIdle

\* a folder-opened message: every registered handleFolderOpened runs
FolderOpened(f) ==
  /\ pc = "ui"
  /\ Len(batches) + Len(listeners) <= MaxBatches
  /\ openFolderPath' = f
  /\ uiSchema' = ClearedSchema
  /\ parseError' = NULL
  /\ isLoading' = TRUE
  /\ batches' = batches \o [k \in 1..Len(listeners) |-> Reading(f)]
  /\ listeners' = Append(listeners, f)
  /\ UNCHANGED <<pc, parserVars, toolVars>>

\* a file-added, file-changed or file-removed message: every registered
\* handler runs and calls parseSchema with the openFolderPath it closed over
FileEvent ==
  LET targets == SelectSeq(listeners, LAMBDA p : p # NULL)
  IN  /\ pc = "ui"
      /\ openFolderPath # NULL
      /\ Len(batches) + Len(targets) <= MaxBatches
      /\ batches' = batches \o [k \in 1..Len(targets) |-> Reading(targets[k])]
      /\ isLoading' = TRUE
      /\ UNCHANGED <<pc, parserVars, toolVars, openFolderPath, listeners, uiSchema, parseError>>

FileAdded == FileEvent

FileChanged == FileEvent

FileRemoved == FileEvent

\* readAllFiles answers batch b with success: parseAllFiles, updateSchema,
\* and in the finally block setIsLoading(false)
ReadSucceeds(b) ==
  /\ pc = "ui"
  /\ b \in InFlight
  /\ uiSchema' = [batch |-> b, folder |-> batches[b].folder]
  /\ parseError' = NULL
  /\ isLoading' = FALSE
  /\ batches' = [batches EXCEPT ![b].status = "done"]
  /\ listeners' = Append(listeners, openFolderPath)
  /\ UNCHANGED <<pc, parserVars, toolVars, openFolderPath>>

\* readAllFiles answers batch b with success: false, or rejects
ReadFails(b) ==
  /\ pc = "ui"
  /\ b \in InFlight
  /\ parseError' = "error"
  /\ isLoading' = FALSE
  /\ batches' = [batches EXCEPT ![b].status = "failed"]
  /\ UNCHANGED <<pc, parserVars, toolVars, openFolderPath, listeners, uiSchema>>

Next ==
  \/ \E f \in Folders : FolderOpened(f)
  \/ FileAdded
  \/ FileChanged
  \/ FileRemoved
  \/ \E b \in 1..Len(batches) : ReadSucceeds(b)
  \/ \E b \in 1..Len(batches) : ReadFails(b)

Spec == Init /\ [][Next]_vars

\* ------------------------------------------------------------------------
\* The main process: openFolder and the file watcher
\* ------------------------------------------------------------------------
\* the calls of openFolder a run makes
MaxOpens == 3

Watcher(folder, closed) == [folder |-> folder, closed |-> closed]

\* fileWatcher.close() when fileWatcher is set
closeWatcher(ws, w) == IF w = 0 THEN ws ELSE [ws EXCEPT ![w].closed = TRUE]

InitMain ==
  /\ pc = "main"
  /\ mainWindow = TRUE /\ currentFolderPath = NULL /\ fileWatcher = 0
  /\ watchers = <<>> /\ opens = <<>> /\ sent = {}
  /\ BatchIdle /\ TableIdle /\ ColumnIdle /\ UiIdle /\ AnalysisIdle /\ LayoutIdle /\ IdentIdle
  /\ EditorIdle

\* openFolder is called from the menu, a recent-folder item, createProject or
\* the auto-open: it stops the watcher and starts to scan the folder
OpenFolderCalled(f) ==
  /\ pc = "main"
  /\ mainWindow
  /\ Len(opens) < MaxOpens
  /\ watchers' = closeWatcher(watchers, fileWatcher)
  /\ fileWatcher' = 0
  /\ opens' = Append(opens, [folder |-> f, status |-> "scanning"])
  /\ UNCHANGED <<pc, parserVars, uiVars, analysisVars, layoutVars, identVars, editorVars,
                 mainWindow, currentFolderPath, sent>>

\* the scan and the reads of a call complete: the rest of openFolder runs
\* without a pause.  After the window was closed the send throws and the
\* catch block shows the error.
ScanCompletes(c) ==
  /\ pc = "main"
  /\ opens[c].status = "scanning"
  /\ currentFolderPath' = opens[c].folder
  /\ IF mainWindow
     THEN /\ watchers' = Append(watchers, Watcher(opens[c].folder, FALSE))
          /\ fileWatcher' = Len(watchers) + 1
          /\ opens' = [opens EXCEPT ![c].status = "opened"]
     ELSE /\ opens' = [opens EXCEPT ![c].status = "failed"]
          /\ UNCHANGED <<watchers, fileWatcher>>
  /\ UNCHANGED <<pc, parserVars, uiVars, analysisVars, layoutVars, identVars, editorVars, mainWindow, sent>>

\* the scan or a read of a call throws: the catch block shows the error
ScanFails(c) ==
  /\ pc = "main"
  /\ opens[c].status = "scanning"
  /\ opens' = [opens EXCEPT ![c].status = "failed"]
  /\ UNCHANGED <<pc, parserVars, uiVars, analysisVars, layoutVars, identVars, editorVars,
                 mainWindow, currentFolderPath, fileWatcher, watchers, sent>>

\* a watcher that was not closed sees a file of its folder added, changed or
\* removed and sends the event to the renderer
WatcherEvent(w) ==
  /\ pc = "main"
  /\ mainWindow
  /\ ~watchers[w].closed
  /\ sent' = sent \cup {<<watchers[w].folder, currentFolderPath>>}
  /\ UNCHANGED <<pc, parserVars, uiVars, analysisVars, layoutVars, identVars, editorVars,
                 mainWindow, currentFolderPath, fileWatcher, watchers, opens>>

\* mainWindow.on('closed')
WindowClosed ==
  /\ pc = "main"
  /\ mainWindow
  /\ mainWindow' = FALSE
  /\ watchers' = closeWatcher(watchers, fileWatcher)
  /\ fileWatcher' = 0
  /\ UNCHANGED <<pc, parserVars, uiVars, analysisVars, layoutVars, identVars, editorVars,
                 currentFolderPath, opens, sent>>

NextMain ==
  \/ \E f \in Folders : OpenFolderCalled(f)
  \/ \E c \in 1..Len(opens) : ScanCompletes(c)
  \/ \E c \in 1..Len(opens) : ScanFails(c)
  \/ \E w \in 1..Len(watchers) : WatcherEvent(w)
  \/ WindowClosed

SpecMain == InitMain /\ [][NextMain]_vars

\* ------------------------------------------------------------------------
\* EditorContext: the tabs of the editor
\* ------------------------------------------------------------------------
Paths == {"p", "q"}

Texts == {"c0", "c1", "c2"}

\* the tabs open or being opened, and the saves in flight, of a run
MaxTabs == 2

MaxSaves == 2

Tab(path, content, originalContent, isDirty) ==
  [path |-> path, content |-> content, originalContent |-> originalContent,
   isDirty |-> isDirty]

\* openFiles.find(f => f.path === filePath) finds a tab
isOpen(tabs, filePath) == \E k \in 1..Len(tabs) : tabs[k].path = filePath

\* openFiles.find(f => f.path === filePath)
findTab(tabs, filePath) == tabs[Min({k \in 1..Len(tabs) : tabs[k].path = filePath})]

\* the sequence without its i-th element
without(seq, i) == SubSeq(seq, 1, i - 1) \o SubSeq(seq, i + 1, Len(seq))

\* prev.filter(f => f.path !== filePath)
remaining(tabs, filePath) == SelectSeq(tabs, LAMBDA f : f.path # filePath)

\* the tab of updateFileContent
edited(f, filePath, newContent) ==
  IF f.path = filePath
  THEN [f EXCEPT !.content = newContent, !.isDirty = (newContent # f.originalContent)]
  ELSE f

\* the tab of saveFile remembers the content that was written (mutation)
markSavedWritten(f, filePath, written) ==
  IF f.path = filePath
  THEN [f EXCEPT !.originalContent = written, !.isDirty = (f.content # written)]
  ELSE f

\* the tab of saveFile after the write succeeded
markSaved(f, filePath, written) ==
  IF f.path = filePath
  THEN [f EXCEPT !.originalContent = f.content, !.isDirty = FALSE]
  ELSE f

InitEditor ==
  /\ pc = "editor"
  /\ openFiles = <<>> /\ activeFilePath = NULL
  /\ disk = [q \in Paths |-> "c0"]
  /\ reads = <<>> /\ saves = <<>>
  /\ BatchIdle /\ TableIdle /\ ColumnIdle /\ UiIdle /\ AnalysisIdle /\ LayoutIdle /\ IdentIdle
  /\ MainIdle

\* openFile: a file that is open becomes the active one, another is read
OpenFileCalled(filePath) ==
  /\ pc = "editor"
  /\ IF isOpen(openFiles, filePath)
     THEN activeFilePath' = filePath /\ UNCHANGED reads
     ELSE /\ Len(openFiles) + Len(reads) < MaxTabs
          /\ reads' = Append(reads, filePath)
          /\ UNCHANGED activeFilePath
  /\ UNCHANGED <<pc, parserVars, uiVars, analysisVars, layoutVars, identVars, mainVars,
                 openFiles, disk, saves>>

\* readFile succeeds: openFile adds the tab
ReadFileSucceeds(i) ==
  /\ pc = "editor"
  /\ openFiles' = Append(openFiles, Tab(reads[i], disk[reads[i]], disk[reads[i]], FALSE))
  /\ activeFilePath' = reads[i]
  /\ reads' = without(reads, i)
  /\ UNCHANGED <<pc, parserVars, uiVars, analysisVars, layoutVars, identVars, mainVars,
                 disk, saves>>

\* readFile fails: openFile adds nothing
ReadFileFails(i) ==
  /\ pc = "editor"
  /\ reads' = without(reads, i)
  /\ UNCHANGED <<pc, parserVars, uiVars, analysisVars, layoutVars, identVars, mainVars,
                 openFiles, activeFilePath, disk, saves>>

closeFile(filePath) ==
  /\ pc = "editor"
  /\ isOpen(openFiles, filePath)
  /\ openFiles' = remaining(openFiles, filePath)
  /\ activeFilePath' =
       IF activeFilePath = filePath
       THEN (IF remaining(openFiles, filePath) # <<>>
             THEN remaining(openFiles, filePath)[Len(remaining(openFiles, filePath))].path
             ELSE NULL)
       ELSE activeFilePath
  /\ UNCHANGED <<pc, parserVars, uiVars, analysisVars, layoutVars, identVars, mainVars,
                 disk, reads, saves>>

\* updateFileContent: the user types in a tab
updateFileContent(filePath, newContent) ==
  /\ pc = "editor"
  /\ isOpen(openFiles, filePath)
  /\ findTab(openFiles, filePath).content # newContent
  /\ openFiles' = [k \in 1..Len(openFiles) |-> edited(openFiles[k], filePath, newContent)]
  /\ UNCHANGED <<pc, parserVars, uiVars, analysisVars, layoutVars, identVars, mainVars,
                 activeFilePath, disk, reads, saves>>

\* saveFile up to its await: the content of the tab is given to the main
\* process
SaveFileCalled(filePath) ==
  /\ pc = "editor"
  /\ isOpen(openFiles, filePath)
  /\ Len(saves) < MaxSaves
  /\ saves' = Append(saves, [path |-> filePath, content |-> findTab(openFiles, filePath).content])
  /\ UNCHANGED <<pc, parserVars, uiVars, analysisVars, layoutVars, identVars, mainVars,
                 openFiles, activeFilePath, disk, reads>>

\* the write succeeds: the file holds the content that was given, and
\* saveFile marks the tab as saved
SaveSucceeds(i) ==
  /\ pc = "editor"
  /\ disk' = [disk EXCEPT ![saves[i].path] = saves[i].content]
  /\ openFiles' = [k \in 1..Len(openFiles) |->
                     markSaved(openFiles[k], saves[i].path, saves[i].content)]
  /\ saves' = without(saves, i)
  /\ UNCHANGED <<pc, parserVars, uiVars, analysisVars, layoutVars, identVars, mainVars,
                 activeFilePath, reads>>

\* the write fails: saveFile returns false
SaveFails(i) ==
  /\ pc = "editor"
  /\ saves' = without(saves, i)
  /\ UNCHANGED <<pc, parserVars, uiVars, analysisVars, layoutVars, identVars, mainVars,
                 openFiles, activeFilePath, disk, reads>>

NextEditor ==
  \/ \E filePath \in Paths : OpenFileCalled(filePath)
  \/ \E i \in 1..Len(reads) : ReadFileSucceeds(i)
  \/ \E i \in 1..Len(reads) : ReadFileFails(i)
  \/ \E filePath \in Paths : closeFile(filePath)
  \/ \E filePath \in Paths : \E newContent \in Texts : updateFileContent(filePath, newContent)
  \/ \E filePath \in Paths : SaveFileCalled(filePath)
  \/ \E i \in 1..Len(saves) : SaveSucceeds(i)
  \/ \E i \in 1..Len(saves) : SaveFails(i)

SpecEditor == InitEditor /\ [][NextEditor]_vars

\* ------------------------------------------------------------------------
\* analyzeSchema: the rules
\* ------------------------------------------------------------------------
\* an issue; message is the kind of the message, cycle the sequence a
\* circular-dependency message spells out
Issue(severity, category, table, col, cycle, sourceFile, message) ==
  [severity |-> severity, category |-> category, table |-> table, column |-> col,
   cycle |-> cycle, sourceFile |-> sourceFile, message |-> message]

\* the first index of x in s: Array.prototype.indexOf
indexOf(s, x) == Min({i \in 1..Len(s) : s[i] = x})

\* tablesWithRelations: the names of the tables that have foreign keys and
\* the names their foreign keys reference
tablesWithRelations(ts) ==
  {ts[k].name : k \in {j \in 1..Len(ts) : ts[j].foreignKeys # <<>>}}
  \cup UNION {{fk.referencedTable : fk \in Range(ts[k].foreignKeys)} : k \in 1..Len(ts)}

orphanIssue(table) ==
  Issue("info", "Relationships", table.name, NULL, <<>>, table.sourceFile, "no relationships")

\* every table, orphan or not, is reported (mutation)
detectOrphanTablesAll(s) == [k \in 1..Len(s.tables) |-> orphanIssue(s.tables[k])]

detectOrphanTables(s) ==
  [k \in 1..Len(SelectSeq(s.tables, LAMBDA t : t.name \notin tablesWithRelations(s.tables))) |->
     orphanIssue(SelectSeq(s.tables, LAMBDA t : t.name \notin tablesWithRelations(s.tables))[k])]

\* adjacencyList.get(node) || []: the referenced tables of every table named
\* node, in order
neighbors(ts, node) ==
  Flatten([k \in 1..Len(ts) |->
             IF ts[k].name = node
             THEN [j \in 1..Len(ts[k].foreignKeys) |-> ts[k].foreignKeys[j].referencedTable]
             ELSE <<>>])

\* the state of the search: visited, recursionStack, path and cycles
NewSearch == [visited |-> {}, stack |-> {}, path |-> <<>>, cycles |-> <<>>]

\* visited.add(node); recursionStack.add(node); path.push(node)
enter(st, node) ==
  [st EXCEPT !.visited = @ \cup {node}, !.stack = @ \cup {node}, !.path = Append(@, node)]

\* path.pop(); recursionStack.delete(node)
leave(st, node) ==
  [st EXCEPT !.path = SubSeq(@, 1, Len(@) - 1), !.stack = @ \ {node}]

\* path.slice(path.indexOf(neighbor)) with neighbor pushed
cycleFrom(path, neighbor) == SubSeq(path, indexOf(path, neighbor), Len(path)) \o <<neighbor>>

RECURSIVE dfs(_, _, _)
RECURSIVE visitNeighbors(_, _, _, _)
\* the body of the loop over the neighbors
visit(ts, neighbor, st) ==
  IF neighbor \notin st.visited THEN dfs(ts, neighbor, st)
  ELSE IF neighbor \in st.stack
  THEN [st EXCEPT !.cycles = Append(@, cycleFrom(st.path, neighbor))]
  ELSE st

\* the loop over the neighbors ns from the i-th on
visitNeighbors(ts, ns, i, st) ==
  IF i > Len(ns) THEN st
  ELSE visitNeighbors(ts, ns, i + 1, visit(ts, ns[i], st))

dfs(ts, node, st) == leave(visitNeighbors(ts, neighbors(ts, node), 1, enter(st, node)), node)

\* for (const table of schema.tables) if (!visited.has(table.name)) dfs(...)
RECURSIVE dfsAll(_, _, _)
dfsAll(ts, k, st) ==
  IF k > Len(ts) THEN st
  ELSE dfsAll(ts, k + 1, IF ts[k].name \notin st.visited THEN dfs(ts, ts[k].name, st) ELSE st)

\* the order of < on the table names (UTF-16 code units)
Rank == [n \in {"a", "b", "c"} |-> CASE n = "a" -> 1 [] n = "b" -> 2 [] OTHER -> 3]

Less(x, y) == Rank[x] < Rank[y]

\* the loop of normalizeCycle: the first index of a smallest element
minIndex(ns) == Min({i \in 1..Len(ns) : \A j \in 1..Len(ns) : ~Less(ns[j], ns[i])})

\* [...nodes.slice(minIndex), ...nodes.slice(0, minIndex)] with its first
\* element pushed
rotate(ns, m) ==
  SubSeq(ns, m, Len(ns)) \o SubSeq(ns, 1, m - 1) \o <<ns[m]>>

\* the cycle is reported as the search found it (mutation)
normalizeCycleNot(cycle) == cycle

normalizeCycle(cycle) ==
  IF Len(cycle) <= 1 THEN cycle
  ELSE rotate(SubSeq(cycle, 1, Len(cycle) - 1), minIndex(SubSeq(cycle, 1, Len(cycle) - 1)))

\* sourceFiles[0]: the source file of the first table of the cycle
cycleSourceFile(ts, normalized) ==
  ts[Min({k \in 1..Len(ts) : ts[k].name \in Range(normalized)})].sourceFile

cycleIssue(ts, normalized) ==
  Issue("warning", "Relationships", normalized[1], NULL, normalized,
        cycleSourceFile(ts, normalized), "circular dependency")

\* the loop that reports the cycles whose key was not reported yet
RECURSIVE reportCycles(_, _, _, _)
reportCycles(ts, cycles, k, reported) ==
  IF k > Len(cycles) THEN <<>>
  ELSE IF normalizeCycle(cycles[k]) \in reported
  THEN reportCycles(ts, cycles, k + 1, reported)
  ELSE <<cycleIssue(ts, normalizeCycle(cycles[k]))>>
       \o reportCycles(ts, cycles, k + 1, reported \cup {normalizeCycle(cycles[k])})

\* the search looks at the first neighbor of a node only (mutation)
detectCircularDependenciesFirst(s) ==
  reportCycles(s.tables,
               dfsAll([k \in 1..Len(s.tables) |->
                         [s.tables[k] EXCEPT !.foreignKeys = IF @ = <<>> THEN <<>> ELSE <<@[1]>>]],
                      1, NewSearch).cycles,
               1, {})

detectCircularDependencies(s) ==
  reportCycles(s.tables, dfsAll(s.tables, 1, NewSearch).cycles, 1, {})

detectMissingPrimaryKeys(s) ==
  [k \in 1..Len(SelectSeq(s.tables, LAMBDA t : t.primaryKey = <<>>)) |->
     Issue("warning", "Best Practices",
           SelectSeq(s.tables, LAMBDA t : t.primaryKey = <<>>)[k].name, NULL, <<>>,
           SelectSeq(s.tables, LAMBDA t : t.primaryKey = <<>>)[k].sourceFile, "no primary key")]

\* String.prototype.toLowerCase on the names of the model
Lower ==
  [n \in {"a", "b", "c", "id", "user_id", "User_ID", "owner", "Owner"} |->
     CASE n = "User_ID" -> "user_id" [] n = "Owner" -> "owner" [] OTHER -> n]

\* /[A-Z]/.test(name)
hasUpper(name) == Lower[name] # name

\* column.endsWith('_id')
endsWithId(name) == name \in {"user_id"}

\* the issues of checkTableNamingConventions for one table: the table name,
\* then its columns
namingIssues(t) ==
  (IF hasUpper(t.name)
   THEN <<Issue("info", "Naming Conventions", t.name, NULL, <<>>, t.sourceFile, "table mixed case")>>
   ELSE <<>>)
  \o [k \in 1..Len(SelectSeq(t.columns, LAMBDA c : hasUpper(c.name))) |->
        Issue("info", "Naming Conventions", t.name,
              SelectSeq(t.columns, LAMBDA c : hasUpper(c.name))[k].name, <<>>, t.sourceFile,
              "column mixed case")]

checkTableNamingConventions(s) == Flatten([k \in 1..Len(s.tables) |-> namingIssues(s.tables[k])])

\* the columns of the foreign keys of a table, in order
fkColumns(t) == Flatten([j \in 1..Len(t.foreignKeys) |-> t.foreignKeys[j].columns])

\* the issues of checkForeignKeyNaming for one table
fkNamingIssues(t) ==
  [k \in 1..Len(SelectSeq(fkColumns(t), LAMBDA c : ~endsWithId(c))) |->
     Issue("info", "Naming Conventions", t.name,
           SelectSeq(fkColumns(t), LAMBDA c : ~endsWithId(c))[k], <<>>, t.sourceFile,
           "foreign key column suffix")]

checkForeignKeyNaming(s) == Flatten([k \in 1..Len(s.tables) |-> fkNamingIssues(s.tables[k])])

\* indexedColumns.get(name): the lower-cased columns of the indexes on name,
\* of the primary keys of the tables named name and of their single-column
\* unique constraints
indexedColumns(s, name) ==
  UNION {{Lower[c] : c \in Range(x.columns)} : x \in {y \in Range(s.indexes) : y.tableName = name}}
  \cup UNION {{Lower[c] : c \in Range(t.primaryKey)} : t \in {u \in Range(s.tables) : u.name = name}}
  \cup UNION {{Lower[u[1]] : u \in {v \in Range(t.uniqueConstraints) : Len(v) = 1}} :
                t \in {u \in Range(s.tables) : u.name = name}}

\* hasCompoundIndex: an index on name starts with the column
hasCompoundIndex(s, name, colLower) ==
  \E x \in Range(s.indexes) :
    x.tableName = name /\ Len(x.columns) > 0 /\ Lower[x.columns[1]] = colLower

\* the foreign-key column is flagged
unindexed(s, t, fkCol) ==
  /\ Lower[fkCol] \notin indexedColumns(s, t.name)
  /\ ~hasCompoundIndex(s, t.name, Lower[fkCol])

\* the issues of detectMissingFKIndexes for one table
missingIndexIssues(s, t) ==
  [k \in 1..Len(SelectSeq(fkColumns(t), LAMBDA c : unindexed(s, t, c))) |->
     Issue("warning", "Best Practices", t.name,
           SelectSeq(fkColumns(t), LAMBDA c : unindexed(s, t, c))[k], <<>>, t.sourceFile,
           "no index")]

detectMissingFKIndexes(s) == Flatten([k \in 1..Len(s.tables) |-> missingIndexIssues(s, s.tables[k])])

\* severityOrder
severityOrder == [v \in {"error", "warning", "info"} |->
                    CASE v = "error" -> 0 [] v = "warning" -> 1 [] OTHER -> 2]

\* an insertion that puts x before the issues of its own severity (mutation:
\* a sort that is not stable)
RECURSIVE insertFirst(_, _)
insertFirst(sorted, x) ==
  IF sorted = <<>> THEN <<x>>
  ELSE IF severityOrder[x.severity] - severityOrder[sorted[Len(sorted)].severity] > 0
  THEN Append(sorted, x)
  ELSE Append(insertFirst(SubSeq(sorted, 1, Len(sorted) - 1), x), sorted[Len(sorted)])

\* x put into a sorted list after every issue the comparator does not put
\* after it: Array.prototype.sort is stable
RECURSIVE insertStable(_, _)
insertStable(sorted, x) ==
  IF sorted = <<>> THEN <<x>>
  ELSE IF severityOrder[x.severity] - severityOrder[sorted[Len(sorted)].severity] >= 0
  THEN Append(sorted, x)
  ELSE Append(insertStable(SubSeq(sorted, 1, Len(sorted) - 1), x), sorted[Len(sorted)])

\* issues.sort((a, b) => severityOrder[a.severity] - severityOrder[b.severity])
RECURSIVE sortBySeverity(_)
sortBySeverity(is) ==
  IF is = <<>> THEN <<>>
  ELSE insertStable(sortBySeverity(SubSeq(is, 1, Len(is) - 1)), is[Len(is)])

\* analyzeSchema with its default options
analyzeSchema(s) ==
  sortBySeverity(detectOrphanTables(s) \o detectCircularDependencies(s)
                 \o detectMissingPrimaryKeys(s) \o checkTableNamingConventions(s)
                 \o checkForeignKeyNaming(s) \o detectMissingFKIndexes(s))

\* ------------------------------------------------------------------------
\* analyzeSchema: the models it is given and the panel that calls it
\* ------------------------------------------------------------------------
GraphNames == {"a", "b", "c"}

\* the lists of table names: up to three different names in every order, and
\* lists in which a name is declared twice
TableLists ==
  UNION {{l \in [1..n -> GraphNames] : \A i, j \in 1..n : l[i] = l[j] => i = j} : n \in 1..3}
  \cup {<<"a", "a">>, <<"a", "b", "a">>, <<"b", "a", "b">>}

\* the foreign keys of a model of the graph: at most MaxFks of them
MaxFks == 3

\* a foreign key is declared by the k-th table and references a table of the
\* list: the model is resolved
EdgesOf(names) == (1..Len(names)) \X Range(names)

EdgeSeqs(names) == UNION {[1..n -> EdgesOf(names)] : n \in 0..MaxFks}

Column(name) ==
  [name |-> name, dataType |-> "INT", nullable |-> TRUE, defaultValue |-> NULL,
   isUnique |-> FALSE, isPrimaryKey |-> FALSE, references |-> NULL]

ForeignKey(columns, referencedTable) ==
  [constraintName |-> NULL, columns |-> columns, referencedTable |-> referencedTable,
   referencedColumns |-> <<"id">>]

edgesFrom(edges, k) == SelectSeq(edges, LAMBDA e : e[1] = k)

GraphTable(names, edges, k) ==
  [name |-> names[k],
   columns |-> <<Column("id"), Column("user_id")>>,
   primaryKey |-> <<"id">>,
   foreignKeys |-> [j \in 1..Len(edgesFrom(edges, k)) |->
                      ForeignKey(<<"user_id">>, edgesFrom(edges, k)[j][2])],
   uniqueConstraints |-> <<>>,
   sourceFile |-> PathOf(k)]

GraphModel(names, edges) ==
  [tables |-> [k \in 1..Len(names) |-> GraphTable(names, edges, k)],
   types |-> <<>>, sequences |-> <<>>, indexes |-> <<>>]

GraphModels == UNION {{GraphModel(names, edges) : edges \in EdgeSeqs(names)} : names \in TableLists}

\* two cycles that share tables: a -> b -> a together with a -> c -> b, the
\* tables in every order and the two foreign keys of a in both orders
SharedCycleEdges(names) ==
  {<<<<indexOf(names, "a"), q[1]>>, <<indexOf(names, "a"), q[2]>>,
     <<indexOf(names, "b"), "a">>, <<indexOf(names, "c"), "b">>>> :
   q \in {<<"b", "c">>, <<"c", "b">>}}

SharedCycleModels ==
  UNION {{GraphModel(names, edges) : edges \in SharedCycleEdges(names)} :
         names \in {l \in TableLists : Len(l) = 3 /\ Range(l) = GraphNames}}

\* the models of the columns: a table a with one foreign key to a table, in
\* both orders; its primary key, unique constraints, foreign-key columns and
\* the indexes of the model vary
PrimaryKeys == {<<>>, <<"id">>, <<"user_id">>, <<"User_ID">>}

UniqueConstraints == {<<>>, <<<<"user_id">>>>, <<<<"user_id", "owner">>>>}

FkColumns == {<<"user_id">>, <<"User_ID">>, <<"owner">>, <<"owner", "user_id">>}

Index(tableName, columns) == [tableName |-> tableName, columns |-> columns]

Indexes ==
  {<<>>, <<Index("a", <<"user_id">>)>>, <<Index("a", <<"owner", "user_id">>)>>,
   <<Index("a", <<"user_id", "owner">>)>>, <<Index("b", <<"user_id">>)>>}

Targets == {"b", "Owner", "a"}

Referencing(pk, uq, fk, target) ==
  [name |-> "a",
   columns |-> <<Column("id")>> \o [j \in 1..Len(fk) |-> Column(fk[j])],
   primaryKey |-> pk,
   foreignKeys |-> <<ForeignKey(fk, target)>>,
   uniqueConstraints |-> uq,
   sourceFile |-> PathOf(1)]

Referenced(target) ==
  [name |-> target, columns |-> <<Column("id")>>, primaryKey |-> <<"id">>,
   foreignKeys |-> <<>>, uniqueConstraints |-> <<>>, sourceFile |-> PathOf(2)]

ColumnTables(pk, uq, fk, target) ==
  IF target = "a" THEN {<<Referencing(pk, uq, fk, target)>>}
  ELSE {<<Referencing(pk, uq, fk, target), Referenced(target)>>,
        <<Referenced(target), Referencing(pk, uq, fk, target)>>}

ColumnModels ==
  UNION {{[tables |-> ts, types |-> <<>>, sequences |-> <<>>, indexes |-> ix] :
            ts \in ColumnTables(q[1], q[2], q[3], q[4]), ix \in Indexes} :
         q \in PrimaryKeys \X UniqueConstraints \X FkColumns \X Targets}

InitAnalysis ==
  /\ pc = "start"
  /\ model \in GraphModels \cup SharedCycleModels \cup ColumnModels
  /\ issues = <<>>
  /\ BatchIdle /\ TableIdle /\ ColumnIdle /\ UiIdle /\ LayoutIdle /\ OtherIdle

\* SchemaAnalysisPanel: the issues of a schema that has tables
Analyze ==
  /\ pc = "start"
  /\ Len(model.tables) > 0
  /\ issues' = analyzeSchema(model)
  /\ pc' = "analyzed"
  /\ UNCHANGED <<parserVars, uiVars, model, layoutVars, otherVars>>

SpecAnalysis == InitAnalysis /\ [][Analyze]_vars

\* ------------------------------------------------------------------------
\* SchemaView: the layout of the diagram
\* ------------------------------------------------------------------------
GROUP_PADDING == 40

GROUP_HEADER_HEIGHT == 24

NODE_WIDTH == 220

TYPE_NODE_WIDTH == 180

HEADER_HEIGHT == 32

ROW_HEIGHT == 24

NODE_PADDING == 12

\* a table or an enum of the schema: its name, the number of its columns or
\* values, and its source file
Item(name, rows, sourceFile) == [name |-> name, rows |-> rows, sourceFile |-> sourceFile]

\* a table of the schema with its foreign keys: the names they reference
TableItem(name, rows, sourceFile, targets) ==
  [name |-> name, rows |-> rows, sourceFile |-> sourceFile,
   foreignKeys |-> [j \in 1..Len(targets) |-> [referencedTable |-> targets[j]]]]

calculateNodeHeight(table) == HEADER_HEIGHT + (table.rows * ROW_HEIGHT) + NODE_PADDING

calculateTypeHeight(type) == HEADER_HEIGHT + (type.rows * ROW_HEIGHT) + NODE_PADDING

\* getFolderFromSourceFile on the source files of the model
getFolderFromSourceFile(sourceFile) ==
  CASE sourceFile = "db/f2.sql" -> "db" [] OTHER -> "(root)"

Node(id, type, position) == [id |-> id, type |-> type, position |-> position]

Position(x, y) == [x |-> x, y |-> y]

\* Array.prototype.find by name finds an item
hasName(items, id) == \E k \in 1..Len(items) : items[k].name = id

\* Array.prototype.find by name: the first item with the name
findByName(items, id) == items[Min({k \in 1..Len(items) : items[k].name = id})]

\* the height and the width getLayoutedElements gives a node
flatHeight(s, node) ==
  IF node.type = "type"
  THEN (IF hasName(s.types, node.id)
        THEN calculateTypeHeight(findByName(s.types, node.id)) ELSE 100)
  ELSE (IF hasName(s.tables, node.id)
        THEN calculateNodeHeight(findByName(s.tables, node.id)) ELSE 150)

nodeWidth(node) == IF node.type = "type" THEN TYPE_NODE_WIDTH ELSE NODE_WIDTH

\* the height layoutGroupContents gives a node
groupedHeight(s, node, collapsed) ==
  IF node.id \in collapsed THEN HEADER_HEIGHT ELSE flatHeight(s, node)

\* dagre.layout: the centre of the k-th of n nodes.  The nodes are put one
\* rank apart along the direction, in their order or in the reverse order.
dagreCentre(n, k, direction, flip) ==
  IF direction = "LR"
  THEN Position(300 * (IF flip THEN n + 1 - k ELSE k), 200)
  ELSE Position(200, 300 * (IF flip THEN n + 1 - k ELSE k))

\* a call of dagreGraph.setNode and the centre dagreGraph.node returns
DagreCall(graph, id, width, height, centre) ==
  [graph |-> graph, id |-> id, width |-> width, height |-> height, centre |-> centre]

\* the setNode calls of getLayoutedElements
flatCalls(ns, s, direction, flip) ==
  [k \in 1..Len(ns) |->
     DagreCall("flat", ns[k].id, nodeWidth(ns[k]), flatHeight(s, ns[k]),
               dagreCentre(Len(ns), k, direction, flip))]

getLayoutedElements(ns, s, direction, flip) ==
  [k \in 1..Len(ns) |->
     [ns[k] EXCEPT !.position =
        Position(dagreCentre(Len(ns), k, direction, flip).x - nodeWidth(ns[k]) \div 2,
                 dagreCentre(Len(ns), k, direction, flip).y - flatHeight(s, ns[k]) \div 2)]]

\* the folders of groupByFolder in the order the Map holds them: the tables
\* first, then the types
allFolders(s) ==
  [k \in 1..Len(s.tables) |-> getFolderFromSourceFile(s.tables[k].sourceFile)]
  \o [k \in 1..Len(s.types) |-> getFolderFromSourceFile(s.types[k].sourceFile)]

firstOnly(fs) ==
  [j \in 1..Cardinality({k \in 1..Len(fs) : \A i \in 1..(k - 1) : fs[i] # fs[k]}) |->
     fs[CHOOSE k \in 1..Len(fs) :
          /\ \A i \in 1..(k - 1) : fs[i] # fs[k]
          /\ Cardinality({m \in 1..k : \A i \in 1..(m - 1) : fs[i] # fs[m]}) = j]]

folders(s) == firstOnly(allFolders(s))

inFolder(items, folder) ==
  SelectSeq(items, LAMBDA t : getFolderFromSourceFile(t.sourceFile) = folder)

\* the nodes layoutGroupContents creates for a group: tables, then types
groupMembers(s, folder) ==
  [k \in 1..Len(inFolder(s.tables, folder)) |->
     Node(inFolder(s.tables, folder)[k].name, "table", Position(0, 0))]
  \o [k \in 1..Len(inFolder(s.types, folder)) |->
        Node(inFolder(s.types, folder)[k].name, "type", Position(0, 0))]

\* the setNode calls of layoutGroupContents
groupCalls(ms, s, folder, direction, collapsed, flip) ==
  [k \in 1..Len(ms) |->
     DagreCall(folder, ms[k].id, nodeWidth(ms[k]), groupedHeight(s, ms[k], collapsed),
               dagreCentre(Len(ms), k, direction, flip))]

\* layoutedNodes: the top-left corner, the width and the height of the nodes
layoutedNodes(ms, s, direction, collapsed, flip) ==
  [k \in 1..Len(ms) |->
     [id |-> ms[k].id, type |-> ms[k].type,
      position |->
        Position(dagreCentre(Len(ms), k, direction, flip).x - nodeWidth(ms[k]) \div 2,
                 dagreCentre(Len(ms), k, direction, flip).y
                   - groupedHeight(s, ms[k], collapsed) \div 2),
      width |-> nodeWidth(ms[k]),
      height |-> groupedHeight(s, ms[k], collapsed)]]

minX(ps) == Min({ps[k].position.x : k \in 1..Len(ps)})

minY(ps) == Min({ps[k].position.y : k \in 1..Len(ps)})

maxX(ps) == Max({ps[k].position.x + ps[k].width : k \in 1..Len(ps)})

maxY(ps) == Max({ps[k].position.y + ps[k].height : k \in 1..Len(ps)})

\* normalizedNodes and the bounds
normalized(ps) ==
  [nodes |-> [k \in 1..Len(ps) |->
                [ps[k] EXCEPT !.position =
                   Position(ps[k].position.x - minX(ps), ps[k].position.y - minY(ps))]],
   width |-> maxX(ps) - minX(ps),
   height |-> maxY(ps) - minY(ps)]

layoutGroupContents(ms, s, direction, collapsed, flip) ==
  IF ms = <<>> THEN [nodes |-> <<>>, width |-> 0, height |-> 0]
  ELSE normalized(layoutedNodes(ms, s, direction, collapsed, flip))

\* the layout of the g-th group
groupLayout(s, g, direction, collapsed, flip) ==
  layoutGroupContents(groupMembers(s, folders(s)[g]), s, direction, collapsed, flip)

groupWidth(layout) == layout.width + GROUP_PADDING * 2

\* the height of a group is the height of its layout (mutation)
groupHeightBare(layout) == layout.height

groupHeight(layout) == layout.height + GROUP_PADDING + GROUP_HEADER_HEIGHT

\* the setNode calls on groupGraph
outerCalls(s, direction, collapsed, flip) ==
  [g \in 1..Len(folders(s)) |->
     DagreCall("groups", folders(s)[g],
               groupWidth(groupLayout(s, g, direction, collapsed, flip)),
               groupHeight(groupLayout(s, g, direction, collapsed, flip)),
               dagreCentre(Len(folders(s)), g, direction, flip))]

groupId(folderPath) == "group-" \o folderPath

\* the node of a group: its top-left corner is the centre dagre gave it
\* minus half its width and height
groupNode(folderPath, layout, groupPos) ==
  [id |-> groupId(folderPath), type |-> "group",
   position |-> Position(groupPos.x - groupWidth(layout) \div 2,
                         groupPos.y - groupHeight(layout) \div 2),
   width |-> groupWidth(layout), height |-> groupHeight(layout)]

\* a child is inset by the header of the group in both directions (mutation)
childNodeHeader(folderPath, group, node) ==
  [id |-> node.id, type |-> node.type,
   position |-> Position(group.position.x + GROUP_HEADER_HEIGHT + node.position.x,
                         group.position.y + GROUP_HEADER_HEIGHT + node.position.y),
   folder |-> folderPath]

\* a child of a group
childNode(folderPath, group, node) ==
  [id |-> node.id, type |-> node.type,
   position |-> Position(group.position.x + GROUP_PADDING + node.position.x,
                         group.position.y + GROUP_HEADER_HEIGHT + node.position.y),
   folder |-> folderPath]

\* the nodes of a group: the group, then its children
groupNodes(folderPath, group, layout) ==
  <<group>> \o [k \in 1..Len(layout.nodes) |-> childNode(folderPath, group, layout.nodes[k])]

getGroupedLayoutElements(s, direction, collapsed, flip) ==
  Flatten([g \in 1..Len(folders(s)) |->
             groupNodes(folders(s)[g],
                        groupNode(folders(s)[g],
                                  groupLayout(s, g, direction, collapsed, flip),
                                  dagreCentre(Len(folders(s)), g, direction, flip)),
                        groupLayout(s, g, direction, collapsed, flip))])

\* the setNode calls of getGroupedLayoutElements: the groups' contents, then
\* the groups
groupedCalls(s, direction, collapsed, flip) ==
  Flatten([g \in 1..Len(folders(s)) |->
             groupCalls(groupMembers(s, folders(s)[g]), s, folders(s)[g],
                        direction, collapsed, flip)])
  \o outerCalls(s, direction, collapsed, flip)

\* a call of setEdge on a graph
DagreEdge(graph, source, target) == [graph |-> graph, source |-> source, target |-> target]

\* an edge for every foreign key of a table
edgesOfTable(table) ==
  [j \in 1..Len(table.foreignKeys) |->
     DagreEdge("flat", table.name, table.foreignKeys[j].referencedTable)]

\* schemaEdges of the standard layout and allEdges of the grouped layout
schemaEdges(s) == Flatten([k \in 1..Len(s.tables) |-> edgesOfTable(s.tables[k])])

\* new Set(nodes.map(n => n.id))
nodeIds(ms) == {ms[k].id : k \in 1..Len(ms)}

\* the foreign keys of a table for which nodeIds.has(fk.referencedTable)
keysInto(table, ids) == SelectSeq(table.foreignKeys, LAMBDA fk : fk.referencedTable \in ids)

innerEdgesOf(folder, table, ids) ==
  [j \in 1..Len(keysInto(table, ids)) |->
     DagreEdge(folder, table.name, keysInto(table, ids)[j].referencedTable)]

\* the setEdge calls of layoutGroupContents: none when the group has no node
innerEdges(s, folder) ==
  IF groupMembers(s, folder) = <<>> THEN <<>>
  ELSE Flatten([k \in 1..Len(inFolder(s.tables, folder)) |->
                  innerEdgesOf(folder, inFolder(s.tables, folder)[k],
                               nodeIds(groupMembers(s, folder)))])

\* the folder of the table schema.tables.find gives for a foreign key
targetFolder(s, fk) ==
  getFolderFromSourceFile(findByName(s.tables, fk.referencedTable).sourceFile)

\* the foreign keys of a table whose target is found in another folder
crossKeys(s, table) ==
  SelectSeq(table.foreignKeys,
            LAMBDA fk : /\ hasName(s.tables, fk.referencedTable)
                        /\ targetFolder(s, fk) # getFolderFromSourceFile(table.sourceFile))

outerEdgesOf(s, table) ==
  [j \in 1..Len(crossKeys(s, table)) |->
     DagreEdge("groups", getFolderFromSourceFile(table.sourceFile),
               targetFolder(s, crossKeys(s, table)[j]))]

\* the setEdge calls on groupGraph
outerEdges(s) == Flatten([k \in 1..Len(s.tables) |-> outerEdgesOf(s, s.tables[k])])

\* the setEdge calls of getGroupedLayoutElements
groupedEdges(s) ==
  Flatten([g \in 1..Len(folders(s)) |-> innerEdges(s, folders(s)[g])]) \o outerEdges(s)

\* the graphs getGroupedLayoutElements calls dagre.layout on: the groups that
\* have nodes, then the graph of the groups
groupedLayouts(s) ==
  SelectSeq(folders(s), LAMBDA f : groupMembers(s, f) # <<>>) \o <<"groups">>

\* the nodes of the standard layout: the tables, then the types, not placed
standardNodes(s) ==
  [k \in 1..Len(s.tables) |-> Node(s.tables[k].name, "table", Position(0, 0))]
  \o [k \in 1..Len(s.types) |-> Node(s.types[k].name, "type", Position(0, 0))]

\* the useMemo that computes schemaNodes
computeSchemaNodes(s, grouped, direction, collapsed, flip) ==
  IF grouped /\ Len(s.tables) > 0
  THEN getGroupedLayoutElements(s, direction, collapsed, flip)
  ELSE standardNodes(s)

memoCalls(s, grouped, direction, collapsed, flip) ==
  IF grouped /\ Len(s.tables) > 0 THEN groupedCalls(s, direction, collapsed, flip) ELSE <<>>

memoEdges(s, grouped) == IF grouped /\ Len(s.tables) > 0 THEN groupedEdges(s) ELSE <<>>

memoLayouts(s, grouped) == IF grouped /\ Len(s.tables) > 0 THEN groupedLayouts(s) ELSE <<>>

\* schemaNodes.every(node => savedPositions[node.id]) and the map has keys
allNodesHavePositions(sn, saved) ==
  (\A k \in 1..Len(sn) : sn[k].id \in DOMAIN saved) /\ DOMAIN saved # {}

\* layoutedNodes.map(node => ({...node, position: savedPositions[node.id]}))
applySaved(sn, saved) == [k \in 1..Len(sn) |-> [sn[k] EXCEPT !.position = saved[sn[k].id]]]

\* the layout effect: the nodes it sets
effectNodes(sn, s, saved, loaded, direction, grouped, flip, prev) ==
  IF Len(sn) > 0 /\ loaded
  THEN (IF grouped THEN sn
        ELSE IF allNodesHavePositions(sn, saved) THEN applySaved(sn, saved)
        ELSE getLayoutedElements(sn, s, direction, flip))
  ELSE IF Len(sn) = 0 THEN <<>>
  ELSE prev

\* the layout effect: the message it logs, NULL when it logs none
effectLog(sn, saved, loaded, grouped) ==
  IF Len(sn) > 0 /\ loaded
  THEN (IF grouped THEN "Applied grouped layout"
        ELSE IF allNodesHavePositions(sn, saved) THEN "Applied saved positions"
        ELSE "Applied dagre layout")
  ELSE NULL

\* the layout effect: its calls of dagre
effectCalls(sn, s, saved, loaded, direction, grouped, flip) ==
  IF Len(sn) > 0 /\ loaded /\ ~grouped /\ ~allNodesHavePositions(sn, saved)
  THEN flatCalls(sn, s, direction, flip)
  ELSE <<>>

\* the layout effect lays out every graph it is given (mutation)
effectLayoutsAlways(sn, saved, loaded, grouped) ==
  IF ~grouped /\ ~allNodesHavePositions(sn, saved) THEN <<"flat">> ELSE <<>>

\* the layout effect: the graphs it calls dagre.layout on
effectLayouts(sn, saved, loaded, grouped) ==
  IF Len(sn) > 0 /\ loaded /\ ~grouped /\ ~allNodesHavePositions(sn, saved)
  THEN <<"flat">>
  ELSE <<>>

\* the layout effect: the edges it gives dagre
effectEdges(sn, s, saved, loaded, grouped) ==
  IF effectLayouts(sn, saved, loaded, grouped) # <<>> THEN schemaEdges(s) ELSE <<>>

\* positions[node.id] = node.position for every node
positionsOf(ns) ==
  [id \in {ns[k].id : k \in 1..Len(ns)} |->
     ns[Max({k \in 1..Len(ns) : ns[k].id = id})].position]

\* the schemas the view is given: a table a, a table b and an enum e, in
\* the root folder or in the folder db
TableChoices ==
  {<<>>, <<TableItem("a", 5, "f1.sql", <<>>)>>,
   <<TableItem("a", 5, "f1.sql", <<>>), TableItem("b", 2, "db/f2.sql", <<"a">>)>>}

TypeChoices == {<<>>, <<Item("e", 3, "f1.sql")>>}

ViewSchemas ==
  {v \in {[tables |-> ts, types |-> ys] : ts \in TableChoices, ys \in TypeChoices} :
     Len(v.tables) + Len(v.types) <= 2}

\* the nodes whose collapse button is used
Collapsible == {"a"}

\* the positions a drag ends at
DragPositions == {Position(90, 84)}

\* the node positions a .runway file holds
SavedChoices ==
  {<<>>, [id \in {"a"} |-> Position(10, 20)],
   [id \in {"a", "b", "e"} |-> IF id = "a" THEN Position(10, 20) ELSE Position(400, 20)]}

Directions == {"LR", "TB"}

\* the diagram and its toolbar are rendered only when the schema has tables
diagramShown == Len(viewSchema.tables) > 0

InitLayout ==
  /\ pc = "view"
  /\ LayoutIdle
  /\ BatchIdle /\ TableIdle /\ ColumnIdle /\ UiIdle /\ AnalysisIdle /\ OtherIdle

\* the render that follows a change of the dependencies of the memo: the
\* memo is computed again and the layout effect runs
Rerender(prev, calls, edges, layouts, flip) ==
  /\ schemaNodes' = computeSchemaNodes(viewSchema', groupByFolder', layoutDirection',
                                       collapsedNodes', flip)
  /\ nodes' = effectNodes(schemaNodes', viewSchema', nodePositions', settingsLoaded',
                          layoutDirection', groupByFolder', flip, prev)
  /\ layoutLog' = effectLog(schemaNodes', nodePositions', settingsLoaded', groupByFolder')
  /\ dagreCalls' = calls
                    \o memoCalls(viewSchema', groupByFolder', layoutDirection',
                                 collapsedNodes', flip)
                    \o effectCalls(schemaNodes', viewSchema', nodePositions',
                                   settingsLoaded', layoutDirection', groupByFolder', flip)
  /\ dagreEdges' = edges
                    \o memoEdges(viewSchema', groupByFolder')
                    \o effectEdges(schemaNodes', viewSchema', nodePositions', settingsLoaded',
                                   groupByFolder')
  /\ dagreLayouts' = layouts
                      \o memoLayouts(viewSchema', groupByFolder')
                      \o effectLayouts(schemaNodes', nodePositions', settingsLoaded',
                                       groupByFolder')

\* the render that follows a change of the settings only: the memo is kept
\* and the layout effect runs
RunEffect(prev, calls, edges, layouts, flip) ==
  /\ dagreEdges' = edges
                    \o effectEdges(schemaNodes, viewSchema', nodePositions', settingsLoaded',
                                   groupByFolder')
  /\ dagreLayouts' = layouts
                      \o effectLayouts(schemaNodes, nodePositions', settingsLoaded',
                                       groupByFolder')
  /\ schemaNodes' = schemaNodes
  /\ nodes' = effectNodes(schemaNodes, viewSchema', nodePositions', settingsLoaded',
                          layoutDirection', groupByFolder', flip, prev)
  /\ layoutLog' = effectLog(schemaNodes, nodePositions', settingsLoaded', groupByFolder')
  /\ dagreCalls' = calls
                    \o effectCalls(schemaNodes, viewSchema', nodePositions',
                                   settingsLoaded', layoutDirection', groupByFolder', flip)

\* SchemaContext delivers another schema
SchemaChanged ==
  /\ pc = "view"
  /\ \E s \in ViewSchemas \ {viewSchema} : viewSchema' = s
  /\ UNCHANGED <<nodePositions, settingsLoaded, layoutDirection, groupByFolder, collapsedNodes>>
  /\ \E flip \in BOOLEAN : Rerender(nodes, <<>>, <<>>, <<>>, flip)
  /\ UNCHANGED <<pc, parserVars, uiVars, analysisVars, otherVars>>

\* loadSettings completes: the settings of the .runway file, or the defaults
SettingsLoaded ==
  /\ pc = "view"
  /\ ~settingsLoaded
  /\ settingsLoaded' = TRUE
  /\ nodePositions' \in SavedChoices
  /\ UNCHANGED <<viewSchema, layoutDirection, groupByFolder, collapsedNodes>>
  /\ \E flip \in BOOLEAN : RunEffect(nodes, <<>>, <<>>, <<>>, flip)
  /\ UNCHANGED <<pc, parserVars, uiVars, analysisVars, otherVars>>

\* handleNodesChange at the end of a drag: the positions of all the nodes
\* are saved
NodeDragged ==
  /\ pc = "view"
  /\ diagramShown
  /\ \E k \in 1..Len(nodes) : \E p \in DragPositions \ {nodes[k].position} :
       /\ nodePositions' = positionsOf([nodes EXCEPT ![k].position = p])
       /\ UNCHANGED <<viewSchema, settingsLoaded, layoutDirection, groupByFolder,
                      collapsedNodes>>
       /\ \E flip \in BOOLEAN : RunEffect([nodes EXCEPT ![k].position = p], <<>>, <<>>, <<>>, flip)
  /\ UNCHANGED <<pc, parserVars, uiVars, analysisVars, otherVars>>

\* handleLayoutChange: the nodes are laid out in the direction and saved
LayoutChanged ==
  /\ pc = "view"
  /\ diagramShown
  /\ \E d \in Directions \ {layoutDirection} : \E flip \in BOOLEAN :
       /\ layoutDirection' = d
       /\ nodePositions' = positionsOf(getLayoutedElements(schemaNodes, viewSchema, d, flip))
       /\ UNCHANGED <<viewSchema, settingsLoaded, groupByFolder, collapsedNodes>>
       /\ Rerender(getLayoutedElements(schemaNodes, viewSchema, d, flip),
                   flatCalls(schemaNodes, viewSchema, d, flip), schemaEdges(viewSchema),
                   <<"flat">>, flip)
  /\ UNCHANGED <<pc, parserVars, uiVars, analysisVars, otherVars>>

\* handleResetLayout: the nodes are laid out again and saved
LayoutReset ==
  /\ pc = "view"
  /\ diagramShown
  /\ \E flip \in BOOLEAN :
       /\ nodePositions' =
            positionsOf(getLayoutedElements(schemaNodes, viewSchema, layoutDirection, flip))
       /\ UNCHANGED <<viewSchema, settingsLoaded, layoutDirection, groupByFolder,
                      collapsedNodes>>
       /\ RunEffect(getLayoutedElements(schemaNodes, viewSchema, layoutDirection, flip),
                    flatCalls(schemaNodes, viewSchema, layoutDirection, flip),
                    schemaEdges(viewSchema), <<"flat">>, flip)
  /\ UNCHANGED <<pc, parserVars, uiVars, analysisVars, otherVars>>

\* handleToggleGroupByFolder
GroupByFolderToggled ==
  /\ pc = "view"
  /\ diagramShown
  /\ groupByFolder' = ~groupByFolder
  /\ UNCHANGED <<viewSchema, nodePositions, settingsLoaded, layoutDirection, collapsedNodes>>
  /\ \E flip \in BOOLEAN : Rerender(nodes, <<>>, <<>>, <<>>, flip)
  /\ UNCHANGED <<pc, parserVars, uiVars, analysisVars, otherVars>>

\* handleToggleCollapse on a node of the diagram
CollapseToggled ==
  /\ pc = "view"
  /\ diagramShown
  /\ \E k \in 1..Len(nodes) :
       /\ nodes[k].id \in Collapsible
       /\ collapsedNodes' = IF nodes[k].id \in collapsedNodes
                            THEN collapsedNodes \ {nodes[k].id}
                            ELSE collapsedNodes \cup {nodes[k].id}
  /\ UNCHANGED <<viewSchema, nodePositions, settingsLoaded, layoutDirection, groupByFolder>>
  /\ \E flip \in BOOLEAN : Rerender(nodes, <<>>, <<>>, <<>>, flip)
  /\ UNCHANGED <<pc, parserVars, uiVars, analysisVars, otherVars>>

NextLayout ==
  \/ SchemaChanged \/ SettingsLoaded \/ NodeDragged \/ LayoutChanged \/ LayoutReset
  \/ GroupByFolderToggled \/ CollapseToggled

SpecLayout == InitLayout /\ [][NextLayout]_vars

\* ------------------------------------------------------------------------
\* SchemaView: the grouped layout of schemas with foreign keys
\* ------------------------------------------------------------------------
\* the tables a and t, declared in the root folder or in the folder db, with
\* foreign keys to a or to t
GroupedTables ==
  {TableItem(n, 2, f, ts) : n \in {"a", "t"}, f \in {"f1.sql", "db/f2.sql"},
                            ts \in {<<>>, <<"a">>, <<"t">>}}

\* the foreign keys are resolved: each references a table of the schema; a
\* name is declared once in a folder, and may be declared in both folders
resolved(ts) ==
  /\ \A k \in 1..Len(ts) : \A fk \in Range(ts[k].foreignKeys) : hasName(ts, fk.referencedTable)
  /\ \A i, j \in 1..Len(ts) :
       (ts[i].name = ts[j].name /\ ts[i].sourceFile = ts[j].sourceFile) => i = j

GroupedTableLists ==
  UNION {{ts \in [1..n -> GroupedTables] : resolved(ts)} : n \in 1..3}

GroupedTypes == {<<>>, <<Item("e", 3, "db/f2.sql")>>}

GroupedSchemas ==
  {[tables |-> ts, types |-> ys] : ts \in GroupedTableLists, ys \in GroupedTypes}

InitGrouped ==
  /\ pc = "grouped"
  /\ viewSchema \in GroupedSchemas
  /\ layoutDirection \in Directions
  /\ collapsedNodes \in SUBSET Collapsible
  /\ groupByFolder = TRUE /\ settingsLoaded = TRUE /\ nodePositions = <<>>
  /\ schemaNodes = <<>> /\ nodes = <<>> /\ dagreCalls = <<>>
  /\ dagreEdges = <<>> /\ dagreLayouts = <<>> /\ layoutLog = NULL
  /\ BatchIdle /\ TableIdle /\ ColumnIdle /\ UiIdle /\ AnalysisIdle /\ OtherIdle

\* the render of SchemaViewInner on the schema: the memo computes the grouped
\* layout and the layout effect shows it
GroupedRender ==
  /\ pc = "grouped"
  /\ pc' = "rendered"
  /\ UNCHANGED <<viewSchema, nodePositions, settingsLoaded, layoutDirection, groupByFolder,
                 collapsedNodes>>
  /\ \E flip \in BOOLEAN : Rerender(nodes, <<>>, <<>>, <<>>, flip)
  /\ UNCHANGED <<parserVars, uiVars, analysisVars, otherVars>>

SpecGrouped == InitGrouped /\ [][GroupedRender]_vars

\* ------------------------------------------------------------------------
\* Properties of the parser
\* ------------------------------------------------------------------------
RECURSIVE Sum(_)
Sum(ns) == IF ns = <<>> THEN 0 ELSE Head(ns) + Sum(Tail(ns))

\* the number of foreign keys of the tables ts
TotalFks(ts) == Sum([k \in 1..Len(ts) |-> Len(ts[k].foreignKeys)])

\* file i of the batch was parsed (parseDDL did not throw on it)
Parsed(i) == ~parseDDLThrows(files[i].content)

\* some parsed file of the batch declares a table named n
DeclaredInBatch(n) == \E j \in 1..Len(files) : Parsed(j) /\ n \in Range(files[j].decl.tables)

\* the names of the entities of es that come from the file at path p, in order
NamesFrom(es, p) ==
  LET fromP == SelectSeq(es, LAMBDA e : e.sourceFile = p)
  IN  [k \in 1..Len(fromP) |-> fromP[k].name]

Contents == [k \in 1..Len(files) |-> files[k].content]

\* C1: after parseAllFiles, every foreign key of every table of the schema
\* references the name of a table of the schema.
C1_ReferencesResolved ==
  pc = "done" =>
    \A t \in Range(schema.tables) : \A fk \in Range(t.foreignKeys) :
      \E r \in Range(schema.tables) : r.name = fk.referencedTable

\* a finished batch with a failed file, a dropped foreign key and a retained
\* self-reference
C1_Witness ==
  /\ pc = "done"
  /\ \E e \in Range(console) : e.level = "error"
  /\ \E e \in Range(console) : e.level = "warn"
  /\ \E t \in Range(schema.tables) : \E fk \in Range(t.foreignKeys) : fk.referencedTable = t.name

\* C2 (as stated): an ALTER TABLE t ADD FOREIGN KEY ... REFERENCES r of any
\* parsed file is in the foreignKeys of a table named t after parseAllFiles
\* whenever the batch declares a table named t and a table named r.
C2_AlterAppliedAcrossFiles ==
  pc = "done" =>
    \A i \in 1..Len(files) : Parsed(i) =>
      \A a \in Range(files[i].decl.alters) :
        (DeclaredInBatch(a.table) /\ DeclaredInBatch(a.fk.referencedTable)) =>
          \E t \in Range(schema.tables) : t.name = a.table /\ a.fk \in Range(t.foreignKeys)

\* C3: a foreign key of a CREATE TABLE in one file that references a table
\* declared in another file is in the resolved model, whatever the order of
\* the two files; users.sql and orders.sql give two tables and exactly one
\* foreign key on orders, to users, in either order.
C3_CrossFileReferenceKept ==
  pc = "done" =>
    /\ \A i, j \in 1..Len(files) : (i # j /\ Parsed(i) /\ Parsed(j)) =>
         \A d \in Range(files[i].decl.fks) : d[2] \in Range(files[j].decl.tables) =>
           \E t \in Range(schema.tables) :
             /\ t.sourceFile = files[i].path /\ t.name = d[1]
             /\ \E fk \in Range(t.foreignKeys) : fk.referencedTable = d[2]
    /\ Contents \in {<<UsersSql.content, OrdersSql.content>>, <<OrdersSql.content, UsersSql.content>>} =>
         /\ Len(schema.tables) = 2
         /\ \A t \in Range(schema.tables) : t.name = "orders" =>
              Len(t.foreignKeys) = 1 /\ t.foreignKeys[1].referencedTable = "users"
         /\ \E t \in Range(schema.tables) : t.name = "orders"

\* the referencing file is processed before the file that declares the target
C3_Witness ==
  /\ pc = "done"
  /\ Contents = <<OrdersSql.content, UsersSql.content>>
  /\ schema.tables[1].name = "orders" /\ Len(schema.tables[1].foreignKeys) = 1

\* C4: the step that resolves the batch leaves no foreign key to a table that
\* is not in the batch and calls console.warn once per foreign key it drops.
C4_OneDiagnosticPerDrop ==
  [][(pc = "loop" /\ pc' = "done") =>
       /\ \A t \in Range(schema'.tables) : \A fk \in Range(t.foreignKeys) :
            fk.referencedTable \in TableNames(schema.tables)
       /\ Len(console') - Len(console) = TotalFks(schema.tables) - TotalFks(schema'.tables)
       /\ \A k \in (Len(console) + 1)..Len(console') :
            /\ console'[k].level = "warn"
            /\ console'[k].referencedTable \notin TableNames(schema.tables)
       /\ \A k \in 1..Len(schema.tables) :
            /\ schema'.tables[k].foreignKeys =
                 SelectSeq(schema.tables[k].foreignKeys,
                           LAMBDA fk : fk.referencedTable \in TableNames(schema.tables))]_vars

\* two foreign keys to the same missing table were dropped with two
\* diagnostics, and a foreign key of the same table was retained
C4_Witness ==
  /\ pc = "done"
  /\ Cardinality({k \in 1..Len(console) :
                    console[k].level = "warn" /\ console[k].table = "items"
                    /\ console[k].referencedTable = "ghost"}) = 2
  /\ \E t \in Range(schema.tables) : t.name = "items" /\ Len(t.foreignKeys) = 1

\* C5: when parseDDL throws on a file the batch still runs to its end; the
\* schema has every table, type and sequence of the other files and none of
\* the failing file, and console.error was called once, naming the file.
C5_FailureIsolated ==
  /\ pc \in {"loop", "done"}
  /\ pc = "done" =>
       \A i \in 1..Len(files) :
         IF Parsed(i)
         THEN /\ NamesFrom(schema.tables, files[i].path) = files[i].decl.tables
              /\ NamesFrom(schema.types, files[i].path) = files[i].decl.types
              /\ NamesFrom(schema.sequences, files[i].path) = files[i].decl.sequences
         ELSE /\ NamesFrom(schema.tables, files[i].path) = <<>>
              /\ NamesFrom(schema.types, files[i].path) = <<>>
              /\ NamesFrom(schema.sequences, files[i].path) = <<>>
              /\ Cardinality({k \in 1..Len(console) :
                                console[k].level = "error" /\ console[k].file = files[i].path}) = 1

\* a failing file between two files whose entities are in the schema
C5_Witness ==
  /\ pc = "done" /\ Len(files) = 3
  /\ ~Parsed(2) /\ Parsed(1) /\ Parsed(3)
  /\ NamesFrom(schema.tables, files[1].path) # <<>>
  /\ NamesFrom(schema.types, files[3].path) # <<>>
  /\ \E e \in Range(console) : e.level = "error" /\ e.file = files[2].path

\* <<sourceFile, name>> of the entities es, in order
Origins(es) == [k \in 1..Len(es) |-> <<es[k].sourceFile, es[k].name>>]

\* <<path, name>> of what the parsed files of the batch declare under kind
\* ("tables", "types" or "sequences"), in file order and declaration order
DeclaredOrigins(kind) ==
  Flatten([i \in 1..Len(files) |->
             IF Parsed(i)
             THEN [j \in 1..Len(files[i].decl[kind]) |-> <<files[i].path, files[i].decl[kind][j]>>]
             ELSE <<>>])

\* C11: schema.tables, schema.types and schema.sequences of the result are
\* the concatenation, in file order, of what each parsed file declares, in
\* declaration order; entities with the same name are all kept.
C11_ConcatenationInOrder ==
  pc = "done" =>
    /\ Origins(schema.tables) = DeclaredOrigins("tables")
    /\ Origins(schema.types) = DeclaredOrigins("types")
    /\ Origins(schema.sequences) = DeclaredOrigins("sequences")

\* a table named users from one file, then users and two tables named logs
\* from another
C11_Witness ==
  /\ pc = "done"
  /\ Origins(schema.tables)
       = <<<<PathOf(1), "users">>, <<PathOf(2), "logs">>, <<PathOf(2), "users">>, <<PathOf(2), "logs">>>>
  /\ schema.tables[2].columns # schema.tables[4].columns

\* C12: resolveForeignKeys run again on the tables it has resolved removes
\* no foreign key, changes no table and calls console.warn for nothing.
C12_ResolutionIdempotent ==
  pc = "done" =>
    /\ resolveForeignKeys(schema.tables) = schema.tables
    /\ resolveWarnings(schema.tables, 1) = <<>>

\* the first run dropped a foreign key and kept another
C12_Witness ==
  /\ pc = "done"
  /\ \E e \in Range(console) : e.level = "warn"
  /\ TotalFks(schema.tables) > 0
  /\ TotalFks(resolveForeignKeys(schema.tables)) = TotalFks(schema.tables)

\* C7 (as stated): in a resolved model every foreign key has as many
\* referenced columns as columns.
C7_SameNumberOfColumns ==
  pc = "done" =>
    \A t \in Range(schema.tables) : \A fk \in Range(t.foreignKeys) :
      Len(fk.columns) = Len(fk.referencedColumns)

\* C8: a column that parseColumn marks as primary key is not nullable,
\* whatever markers the definition carries and in whatever order.
C8_PrimaryKeyNotNullable ==
  (pc = "done" /\ column # <<>>) => (column[1].isPrimaryKey => ~column[1].nullable)

\* a definition with NULL written before PRIMARY KEY
C8_Witness ==
  /\ pc = "done" /\ column # <<>> /\ column[1].isPrimaryKey
  /\ Len(markers) >= 2 /\ markers[1] = <<"NULL">> /\ markers[2] = W(<<"PRIMARY", "KEY">>)

\* the names of the column elements of es, in order
DeclaredColumns(es) ==
  LET cs == SelectSeq(es, LAMBDA e : e.kind = "column")
  IN  [k \in 1..Len(cs) |-> cs[k].name]

\* C9 (as stated): a table declared with N column definitions and any
\* table-level constraints has exactly those N columns, in declaration order.
C9_ColumnsAsDeclared ==
  pc = "done" =>
    /\ Len(tables) = 1
    /\ [k \in 1..Len(tables[1].columns) |-> tables[1].columns[k].name] = DeclaredColumns(elements)

\* C10: primaryKey is the concatenation, in declaration order, of the inline
\* PRIMARY KEY columns and the columns of the table-level PRIMARY KEY
\* constraints; foreignKeys has one entry per inline REFERENCES and per
\* table-level FOREIGN KEY, in declaration order.
C10_ConstraintsAccumulate ==
  pc = "done" =>
    /\ Len(tables) = 1
    /\ tables[1].primaryKey = Flatten([k \in 1..Len(elements) |-> elements[k].pk])
    /\ [k \in 1..Len(tables[1].foreignKeys) |-> tables[1].foreignKeys[k].referencedTable]
         = Flatten([k \in 1..Len(elements) |-> elements[k].refs])

\* an inline PRIMARY KEY followed by a table-level PRIMARY KEY, and an inline
\* REFERENCES
C10_Witness ==
  /\ pc = "done" /\ Len(tables) = 1
  /\ tables[1].primaryKey = <<"id", "id", "user_id">>
  /\ Len(tables[1].foreignKeys) = 1 /\ tables[1].foreignKeys[1].constraintName = NULL

\* the trailing name component of an identifier: its last lexeme that is
\* neither a quote nor white space
NameOf(ident) ==
  ident[Max({i \in 1..Len(ident) : ident[i] \notin WS \cup {"\""}})]

\* C24 (as stated): for every identifier of the forms name, "name",
\* schema.name, "schema"."name", schema."name" and "schema".name,
\* cleanIdentifier returns exactly name, with no quote and no dot.
C24_BareTrailingName == pc = "cleaned" => cleaned = NameOf(identifier)

\* ------------------------------------------------------------------------
\* Properties of the renderer
\* ------------------------------------------------------------------------
\* C6 (as stated): once no batch is in flight, the schema of SchemaContext is
\* the one the most recently triggered batch produced (when that batch read
\* its folder successfully), and it is a schema of the folder that is open.
C6_LastBatchWins ==
  (InFlight = {} /\ batches # <<>> /\ batches[Len(batches)].status = "done") =>
    /\ uiSchema.batch = Len(batches)
    /\ uiSchema.folder = openFolderPath

\* C25 (as stated): a file-added, file-changed or file-removed message
\* starts exactly one call of parseSchema, for the folder that is open when
\* the message arrives, however many renders and folders came before.
C25_OneBatchPerFileEvent ==
  [][FileEvent =>
       /\ Len(batches') = Len(batches) + 1
       /\ batches'[Len(batches')].folder = openFolderPath]_vars

\* C27 (as stated): isLoading is true whenever a call of parseSchema is in
\* flight; it is false only when none is.
C27_LoadingWhileInFlight == InFlight # {} => isLoading

\* the watchers that were not closed
ActiveWatchers == {w \in 1..Len(watchers) : ~watchers[w].closed}

\* C28 (as stated): at most one file watcher is active at any time and it
\* watches currentFolderPath, for any interleaving of openFolder calls with
\* their scans: no file event is sent for a folder that is not the current
\* one.
C28_OneWatcherOnCurrentFolder ==
  /\ Cardinality(ActiveWatchers) <= 1
  /\ \A w \in ActiveWatchers : w = fileWatcher /\ watchers[w].folder = currentFolderPath
  /\ \A e \in sent : e[1] = e[2]

\* C30 (as stated): a tab that is not dirty shows the content last read from
\* or written to disk for its path, for any interleaving of updateFileContent
\* with a saveFile in flight.
C30_CleanTabMatchesDisk ==
  \A k \in 1..Len(openFiles) :
    ~openFiles[k].isDirty => openFiles[k].content = disk[openFiles[k].path]

\* ------------------------------------------------------------------------
\* Properties of the analyzer
\* ------------------------------------------------------------------------
\* the directed graph table -> referencedTable of a list of tables
EdgeSet(ts) ==
  UNION {{<<ts[k].name, fk.referencedTable>> : fk \in Range(ts[k].foreignKeys)} :
         k \in 1..Len(ts)}

\* the edges of the cycle that runs through the nodes of p in order
CycleEdges(p) == {<<p[i], p[(i % Len(p)) + 1]>> : i \in 1..Len(p)}

\* the simple cycles over the names: sequences of different names
SimpleCycles ==
  UNION {{p \in [1..n -> GraphNames] : \A i, j \in 1..n : p[i] = p[j] => i = j} : n \in 1..3}

\* the smallest name of a set of names
Smallest(ns) == CHOOSE n \in ns : \A m \in ns : ~Less(m, n)

\* the nodes reached from the nodes of S along one edge of E
Step(E, S) == {e[2] : e \in {x \in E : x[1] \in S}}

\* the nodes reached from the nodes of S along one to n edges of E
RECURSIVE Reached(_, _, _)
Reached(E, S, n) == IF n = 0 THEN {} ELSE Step(E, S) \cup Reached(E, Step(E, S), n - 1)

HasCycle(E) == \E e \in E : e[1] \in Reached(E, {e[1]}, Cardinality(E))

CircularIssues == SelectSeq(issues, LAMBDA i : i.message = "circular dependency")

OrphanIssues == SelectSeq(issues, LAMBDA i : i.message = "no relationships")

MissingIndexIssues == SelectSeq(issues, LAMBDA i : i.message = "no index")

\* C13: when the foreign keys of the model form one simple cycle, whatever
\* the order of the tables, exactly one circular dependency is reported, and
\* its sequence runs along the cycle from the smallest table name back to it.
C13_OneCycleFromSmallest ==
  (pc = "analyzed" /\ \E p \in SimpleCycles : EdgeSet(model.tables) = CycleEdges(p)) =>
    /\ Len(CircularIssues) = 1
    /\ CircularIssues[1].cycle[1] = Smallest({e[1] : e \in EdgeSet(model.tables)})
    /\ CircularIssues[1].cycle[Len(CircularIssues[1].cycle)] = CircularIssues[1].cycle[1]
    /\ Len(CircularIssues[1].cycle) = Cardinality(EdgeSet(model.tables)) + 1
    /\ \A i \in 1..(Len(CircularIssues[1].cycle) - 1) :
         <<CircularIssues[1].cycle[i], CircularIssues[1].cycle[i + 1]>> \in EdgeSet(model.tables)

\* the cycle a -> b -> c -> a with the tables in the order c, a, b: the
\* search starts at c and the report starts at a
C13_Witness ==
  /\ pc = "analyzed"
  /\ [k \in 1..Len(model.tables) |-> model.tables[k].name] = <<"c", "a", "b">>
  /\ EdgeSet(model.tables) = {<<"a", "b">>, <<"b", "c">>, <<"c", "a">>}
  /\ Len(CircularIssues) = 1
  /\ CircularIssues[1].cycle = <<"a", "b", "c", "a">>

\* C14: a circular dependency is reported exactly when the graph of the
\* foreign keys has a directed cycle (a table that references itself is one),
\* and every reported sequence closes on itself along foreign keys.
C14_CyclesReportedIffPresent ==
  pc = "analyzed" =>
    /\ (Len(CircularIssues) > 0) <=> HasCycle(EdgeSet(model.tables))
    /\ \A k \in 1..Len(CircularIssues) :
         /\ Len(CircularIssues[k].cycle) >= 2
         /\ CircularIssues[k].cycle[1] = CircularIssues[k].cycle[Len(CircularIssues[k].cycle)]
         /\ \A i \in 1..(Len(CircularIssues[k].cycle) - 1) :
              <<CircularIssues[k].cycle[i], CircularIssues[k].cycle[i + 1]>>
                \in EdgeSet(model.tables)

\* a cycle that runs through the second foreign key of a table, next to a
\* table that references itself: two reports
C14_Witness ==
  /\ pc = "analyzed"
  /\ \E k \in 1..Len(model.tables) :
       /\ Len(model.tables[k].foreignKeys) = 2
       /\ model.tables[k].foreignKeys[1].referencedTable = "c"
       /\ model.tables[k].foreignKeys[2].referencedTable = "b"
       /\ model.tables[k].name = "a"
  /\ EdgeSet(model.tables) = {<<"a", "c">>, <<"a", "b">>, <<"b", "a">>}
  /\ Len(CircularIssues) = 1
  /\ CircularIssues[1].cycle = <<"a", "b", "a">>

\* the tables that lie on a directed cycle of the graph
OnCycle(E) == {e[1] : e \in {x \in E : x[1] \in Reached(E, {x[1]}, Cardinality(E))}}

\* C26 (as stated): every table on a directed cycle of the foreign-key graph
\* appears in the sequence of at least one circular-dependency diagnostic,
\* also when two cycles share tables, for every order of the tables.
C26_EveryCycleTableReported ==
  pc = "analyzed" =>
    \A n \in OnCycle(EdgeSet(model.tables)) :
      \E k \in 1..Len(CircularIssues) : n \in Range(CircularIssues[k].cycle)

\* the entries of the model whose name declares no foreign key and is
\* referenced by none
Unrelated(ts) ==
  SelectSeq(ts, LAMBDA t : /\ \A u \in Range(ts) : u.name = t.name => u.foreignKeys = <<>>
                           /\ \A e \in EdgeSet(ts) : e[2] # t.name)

\* C15: the tables reported as orphans are, entry by entry and in order, the
\* tables whose name declares no foreign key and is referenced by no foreign
\* key of the model, each with severity info; a table that references itself
\* is not reported.
C15_OrphansAreUnrelated ==
  pc = "analyzed" =>
    /\ [k \in 1..Len(OrphanIssues) |-> <<OrphanIssues[k].table, OrphanIssues[k].sourceFile>>]
         = [k \in 1..Len(Unrelated(model.tables)) |->
              <<Unrelated(model.tables)[k].name, Unrelated(model.tables)[k].sourceFile>>]
    /\ \A k \in 1..Len(OrphanIssues) : OrphanIssues[k].severity = "info"
    /\ \A t \in Range(model.tables) :
         (\E fk \in Range(t.foreignKeys) : fk.referencedTable = t.name) =>
           \A k \in 1..Len(OrphanIssues) : OrphanIssues[k].table # t.name

\* a table that only references itself next to a table without relations:
\* only the second is reported
C15_Witness ==
  /\ pc = "analyzed"
  /\ Len(model.tables) = 2
  /\ EdgeSet(model.tables) = {<<model.tables[1].name, model.tables[1].name>>}
  /\ Len(OrphanIssues) = 1
  /\ OrphanIssues[1].table = model.tables[2].name

\* the column is covered as the rule is described: it is in the primary key
\* of the table, or the column of a single-column unique constraint of the
\* table, or the first column of an index on the table (names compared
\* without case, as the rule compares them)
Covered(s, t, c) ==
  \/ \E p \in Range(t.primaryKey) : Lower[p] = Lower[c]
  \/ \E u \in Range(t.uniqueConstraints) : Len(u) = 1 /\ Lower[u[1]] = Lower[c]
  \/ \E x \in Range(s.indexes) :
       x.tableName = t.name /\ Len(x.columns) > 0 /\ Lower[x.columns[1]] = Lower[c]

RuleOutput(s) ==
  detectOrphanTables(s) \o detectCircularDependencies(s) \o detectMissingPrimaryKeys(s)
  \o checkTableNamingConventions(s) \o checkForeignKeyNaming(s) \o detectMissingFKIndexes(s)

OfSeverity(is, v) == SelectSeq(is, LAMBDA i : i.severity = v)

\* C17: the issues are the errors, then the warnings, then the infos of the
\* rules, each tier in the order the rules produced it: orphan tables,
\* circular dependencies, missing primary keys, names of tables and columns,
\* names of foreign-key columns, missing indexes.  Nothing is added or lost.
C17_SeverityTiersInRuleOrder ==
  pc = "analyzed" =>
    /\ issues = OfSeverity(RuleOutput(model), "error")
                  \o OfSeverity(RuleOutput(model), "warning")
                  \o OfSeverity(RuleOutput(model), "info")
    /\ Len(issues) = Len(RuleOutput(model))

\* the rules produce infos before a warning, and two warnings and two infos
\* of different rules: the sort moves the warnings to the front and keeps
\* the order within each tier
C17_Witness ==
  /\ pc = "analyzed"
  /\ issues # RuleOutput(model)
  /\ \E i, j \in 1..Len(issues) :
       /\ i < j
       /\ issues[i].severity = "warning" /\ issues[j].severity = "warning"
       /\ issues[i].message = "no primary key" /\ issues[j].message = "no index"
  /\ \E i, j \in 1..Len(issues) :
       /\ i < j
       /\ issues[i].severity = "info" /\ issues[j].severity = "info"
       /\ issues[i].message = "column mixed case"
       /\ issues[j].message = "foreign key column suffix"

\* ------------------------------------------------------------------------
\* Properties of the layout
\* ------------------------------------------------------------------------
\* the tables and the enums of the schema, and their nodes in the diagram
CurrentItems == Range(viewSchema.tables) \cup Range(viewSchema.types)

CurrentIds == {t.name : t \in CurrentItems}

ItemNodes == {k \in 1..Len(nodes) : nodes[k].id \in CurrentIds}

\* C18 (as stated): every table and every enum given to dagre, in the
\* standard and in the grouped layout, collapsed or not, has the height
\* 32 + 24 * rows + 12 (164 for five columns) and the width of its kind: 220
\* for a table, 180 for an enum.
C18_NodeHeightFromRows ==
  \A c \in Range(dagreCalls) :
    /\ \A t \in Range(viewSchema.tables) :
         (c.graph # "groups" /\ c.id = t.name) =>
           c.height = 32 + 24 * t.rows + 12 /\ c.width = 220 /\ (t.rows = 5 => c.height = 164)
    /\ \A t \in Range(viewSchema.types) :
         (c.graph # "groups" /\ c.id = t.name) =>
           c.height = 32 + 24 * t.rows + 12 /\ c.width = 180

\* the top-left corner the last run of dagre on the standard layout gives
\* the node
FreshPosition(node) ==
  {Position(c.centre.x - c.width \div 2, c.centre.y - c.height \div 2) :
     c \in {d \in Range(dagreCalls) : d.graph = "flat" /\ d.id = node.id}}

\* C19 (as stated): once the settings are loaded, when every table and enum
\* has a saved position each of their nodes is at its saved position, and
\* when one of them has none every node is where the layout algorithm puts
\* it, whatever schema changes, drags, direction changes and resets came
\* before.
C19_SavedPositionsAllOrNothing ==
  (settingsLoaded /\ CurrentIds # {}) =>
    /\ (\A id \in CurrentIds : id \in DOMAIN nodePositions) =>
         /\ ItemNodes # {}
         /\ \A k \in ItemNodes : nodes[k].position = nodePositions[nodes[k].id]
    /\ (\E id \in CurrentIds : id \notin DOMAIN nodePositions) =>
         /\ ItemNodes # {}
         /\ \/ groupByFolder /\ nodes = schemaNodes /\ layoutLog = "Applied grouped layout"
            \/ /\ ~groupByFolder /\ layoutLog = "Applied dagre layout"
               /\ \A k \in ItemNodes : nodes[k].position \in FreshPosition(nodes[k])

\* the top-left corner of the node in its group: its corner in the layout of
\* the group, moved so that the leftmost and the topmost corner are at 0
LocalCorner(c) ==
  Position((c.centre.x - c.width \div 2)
             - Min({d.centre.x - d.width \div 2 : d \in {e \in Range(dagreCalls) : e.graph = c.graph}}),
           (c.centre.y - c.height \div 2)
             - Min({d.centre.y - d.height \div 2 : d \in {e \in Range(dagreCalls) : e.graph = c.graph}}))

\* the calls of dagre that laid out the contents of the groups and the groups
InnerCalls == {c \in Range(dagreCalls) : c.graph \notin {"flat", "groups"}}

OuterCalls == {c \in Range(dagreCalls) : c.graph = "groups"}

\* C20: in the grouped layout a table or enum is at the top-left corner of
\* its group plus its corner inside the group plus 40 to the right and 24
\* down, and the corner of the group is the centre dagre gave the group
\* minus half its width and half its height.
C20_GlobalFromGroupAndLocal ==
  OuterCalls # {} =>
    /\ \A c \in InnerCalls : \E k \in 1..Len(schemaNodes) : schemaNodes[k].id = c.id
    /\ \A c \in InnerCalls : \A k \in 1..Len(schemaNodes) :
         schemaNodes[k].id = c.id =>
           \E g \in OuterCalls : \E j \in 1..Len(schemaNodes) :
             /\ g.id = c.graph /\ schemaNodes[j].id = groupId(g.id)
             /\ schemaNodes[j].position =
                  Position(g.centre.x - g.width \div 2, g.centre.y - g.height \div 2)
             /\ schemaNodes[k].position =
                  Position(schemaNodes[j].position.x + LocalCorner(c).x + 40,
                           schemaNodes[j].position.y + LocalCorner(c).y + 24)

\* a group of two nodes, one of them not at the corner of the layout of the
\* group, shown in the diagram
C20_Witness ==
  /\ groupByFolder /\ nodes = schemaNodes /\ layoutLog = "Applied grouped layout"
  /\ \E c, d \in InnerCalls :
       /\ c.graph = d.graph /\ c.id # d.id
       /\ LocalCorner(c).x > 0 \/ LocalCorner(c).y > 0

\* C22: when the schema has no table and no enum, the nodes and the map of
\* their positions are empty and no step calls dagre.layout or gives dagre a
\* node, in the standard and in the grouped layout; layoutGroupContents on a
\* group without members returns no node and the size 0 x 0, and dagre.layout
\* is called on no group without members.
C22_EmptyModelNoLayout ==
  /\ (viewSchema.tables = <<>> /\ viewSchema.types = <<>>) =>
       /\ schemaNodes = <<>> /\ nodes = <<>> /\ DOMAIN positionsOf(nodes) = {}
       /\ dagreLayouts = <<>> /\ dagreCalls = <<>> /\ dagreEdges = <<>>
  /\ \A flip \in BOOLEAN :
       layoutGroupContents(<<>>, viewSchema, layoutDirection, collapsedNodes, flip)
         = [nodes |-> <<>>, width |-> 0, height |-> 0]
  /\ \A k \in 1..Len(dagreLayouts) :
       dagreLayouts[k] \notin {"flat", "groups"} =>
         groupMembers(viewSchema, dagreLayouts[k]) # <<>>

\* the schema became empty after a node of the grouped diagram was collapsed:
\* the memo and the layout effect ran on no node
C22_Witness ==
  /\ viewSchema = EmptyView /\ settingsLoaded /\ groupByFolder
  /\ "a" \in collapsedNodes
  /\ nodes = <<>> /\ dagreLayouts = <<>>

\* the tables of the schema declared in a folder
TablesIn(folder) ==
  {t \in Range(viewSchema.tables) : getFolderFromSourceFile(t.sourceFile) = folder}

CurrentFolders == {getFolderFromSourceFile(t.sourceFile) : t \in CurrentItems}

\* the edges given to dagre for a graph
EdgesGiven(graph) == {<<e.source, e.target>> : e \in {d \in Range(dagreEdges) : d.graph = graph}}

\* the children of the groups in the diagram
Children == {k \in 1..Len(schemaNodes) : schemaNodes[k].type # "group"}

\* C21 (as stated): in the grouped layout the layout of a group is given
\* exactly the foreign keys from a table of the group to a table of the
\* group, and the layout of the groups is given an edge from G1 to G2 exactly
\* when G1 # G2 and a foreign key of a table of G1 references a table of G2;
\* every table and enum is the child of exactly one group, that of the
\* folder of its source file.  Two folders may declare the same name.
C21_EdgesByGroup ==
  pc = "rendered" =>
    /\ \A g \in CurrentFolders :
         EdgesGiven(g) =
           UNION {{<<t.name, fk.referencedTable>> :
                     fk \in {x \in Range(t.foreignKeys) :
                               \E v \in TablesIn(g) : v.name = x.referencedTable}} :
                  t \in TablesIn(g)}
    /\ EdgesGiven("groups") =
         {p \in CurrentFolders \X CurrentFolders :
            /\ p[1] # p[2]
            /\ \E t \in TablesIn(p[1]) : \E fk \in Range(t.foreignKeys) :
                 \E v \in TablesIn(p[2]) : v.name = fk.referencedTable}
    /\ Cardinality(Children) = Len(viewSchema.tables) + Len(viewSchema.types)
    /\ \A t \in CurrentItems : \E k \in Children :
         /\ schemaNodes[k].id = t.name
         /\ schemaNodes[k].folder = getFolderFromSourceFile(t.sourceFile)

\* the width and the height dagre was given for a child of a group
ChildCalls(node) == {c \in InnerCalls : c.graph = node.folder /\ c.id = node.id}

\* the node of the group of a child
GroupOf(node) == {j \in 1..Len(schemaNodes) : schemaNodes[j].id = groupId(node.folder)}

\* C29: in the grouped layout the rectangle of every table and enum lies
\* inside the rectangle of its group, below the header of the group.
C29_ChildInsideGroup ==
  pc = "rendered" =>
    \A k \in Children :
      /\ ChildCalls(schemaNodes[k]) # {} /\ GroupOf(schemaNodes[k]) # {}
      /\ \A c \in ChildCalls(schemaNodes[k]) : \A j \in GroupOf(schemaNodes[k]) :
           /\ schemaNodes[j].position.x <= schemaNodes[k].position.x
           /\ schemaNodes[k].position.x + c.width
                <= schemaNodes[j].position.x + schemaNodes[j].width
           /\ schemaNodes[j].position.y + GROUP_HEADER_HEIGHT <= schemaNodes[k].position.y
           /\ schemaNodes[k].position.y + c.height
                <= schemaNodes[j].position.y + schemaNodes[j].height

\* two groups, one of them with two tables and an enum, a collapsed node
C29_Witness ==
  /\ pc = "rendered"
  /\ Cardinality(Children) = 4
  /\ Cardinality({schemaNodes[k].folder : k \in Children}) = 2
  /\ "a" \in collapsedNodes
  /\ \A k \in Children : ChildCalls(schemaNodes[k]) # {}

====
